---- MODULE Spec2Model ----
(***************************************************************************)
(* A model of the diary service's cache-aside helper (redisserver), its    *)
(* data-access layer (mysqlserver) and the diary HTTP handlers.            *)
(*                                                                         *)
(* JavaScript values are records [t, s]: t is the typeof-like tag and s    *)
(* the printed content, so that truthiness, JSON.stringify and JSON.parse  *)
(* are computed the way the runtime computes them.                         *)
(***************************************************************************)
EXTENDS Integers, Sequences, FiniteSets, TLC

VARIABLES store, last, expiredSince, database, dlast, pool, hlast, inflight

vars == <<store, last, expiredSince, database, dlast, pool, hlast, inflight>>

(***************************************************************************)
(* Bounds                                                                  *)
(***************************************************************************)
MaxTTL == 2

(***************************************************************************)
(* JavaScript values                                                       *)
(***************************************************************************)
Js(t, s) == [t |-> t, s |-> s]

JsFalse == Js("boolean", "false")
JsTrue == Js("boolean", "true")
JsZero == Js("number", "0")
JsNull == Js("null", "null")
JsUndefined == Js("undefined", "undefined")
JsOK == Js("string", "OK")

\* if (x) / !x : false, 0, NaN, null, undefined and '' are falsy
Truthy(v) ==
  ~ \/ v.t = "boolean" /\ v.s = "false"
    \/ v.t = "number" /\ v.s \in {"0", "NaN"}
    \/ v.t = "null"
    \/ v.t = "undefined"
    \/ v.t = "string" /\ v.s = ""

\* JSON.stringify(value): the JSON text, as a JavaScript string value
\* (undefined for a value that has no JSON text)
JSONstringify(v) ==
  CASE v.t = "undefined" -> JsUndefined
    [] v.t = "number" /\ v.s \in {"NaN", "Infinity"} -> Js("string", "null")
    [] v.t \in {"string", "date"} -> Js("string", "\"" \o v.s \o "\"")
    [] OTHER -> Js("string", v.s)

IsNumeral(text) ==
  /\ Len(text) > 0
  /\ \A i \in 1..Len(text) :
       SubSeq(text, i, i) \in {"0", "1", "2", "3", "4", "5", "6", "7", "8", "9"}

\* JSON.parse(text): [throws, v]; a text that is no JSON throws SyntaxError.
\* The text is read by its first and last characters: a quoted string, an
\* array, an object, a numeral or one of the three literals.
JSONparse(text) ==
  LET n == Len(text)
      first == IF n > 0 THEN SubSeq(text, 1, 1) ELSE ""
      final == IF n > 0 THEN SubSeq(text, n, n) ELSE ""
      value(v) == [v |-> v, throws |-> FALSE]
  IN  CASE text = "null" -> value(JsNull)
        [] text \in {"true", "false"} -> value(Js("boolean", text))
        [] IsNumeral(text) -> value(Js("number", text))
        [] n >= 2 /\ first = "\"" /\ final = "\"" -> value(Js("string", SubSeq(text, 2, n - 1)))
        [] n >= 2 /\ first = "[" /\ final = "]" -> value(Js("array", text))
        [] n >= 2 /\ first = "{" /\ final = "}" -> value(Js("object", text))
        [] OTHER -> [v |-> JsUndefined, throws |-> TRUE]

(***************************************************************************)
(* The cache backend: one entry per namespaced key.  ttl = 0 is an entry   *)
(* without expiry, ttl > 0 the seconds it has left.                        *)
(***************************************************************************)
Keys == {"k1"}

\* `${config.env}_${key}`, in the environment dev
Namespaced(key) == "dev" \o "_" \o key

Absent == [present |-> FALSE, val |-> "", ttl |-> 0]

\* the result of a call: the backend after it, how its promise settled, the
\* value it settled with and the backend commands that failed during it
Settled(s, out, val, failed) == [store |-> s, val |-> val, out |-> out, failed |-> failed]

\* getAsync without its catch: a failed lookup rejects
getAsync_Rejecting(s, key, down) ==
  LET k == Namespaced(key) IN
  IF "get" \in down
  THEN Settled(s, "rejected", JsUndefined, {"get"})
  ELSE Settled(s, "resolved",
               IF s[k].present THEN Js("string", s[k].val) ELSE JsNull, {})

getAsync(s, key, down) ==
  LET k == Namespaced(key) IN
  IF "get" \in down
  THEN Settled(s, "resolved", JsFalse, {"get"})
  ELSE Settled(s, "resolved",
               IF s[k].present THEN Js("string", s[k].val) ELSE JsNull, {})

\* setAsync that issues no set command: nothing is stored
setAsync_NotStoring(s, key, value, expireTTL, down) ==
  Settled(s, "resolved", JsOK, {})

setAsync(s, key, value, expireTTL, down) ==
  LET k == Namespaced(key)
      setFails == "set" \in down
      s1 == IF setFails THEN s ELSE [s EXCEPT ![k] = [present |-> TRUE, val |-> value, ttl |-> 0]]
      expires == expireTTL > 0
      expireFails == expires /\ "expire" \in down
      s2 == IF expires /\ ~expireFails /\ s1[k].present
            THEN [s1 EXCEPT ![k].ttl = expireTTL] ELSE s1
      failed == (IF setFails THEN {"set"} ELSE {}) \cup (IF expireFails THEN {"expire"} ELSE {})
  IN  IF expireFails
      THEN Settled(s1, "resolved", JsFalse, failed)
      ELSE IF setFails
           THEN Settled(s2, "rejected", JsUndefined, failed)
           ELSE Settled(s2, "resolved", JsOK, failed)

delAsync(s, key, down) ==
  LET k == Namespaced(key) IN
  IF "del" \in down
  THEN Settled(s, "rejected", JsUndefined, {"del"})
  ELSE Settled([s EXCEPT ![k] = Absent], "resolved",
               IF s[k].present THEN Js("number", "1") ELSE JsZero, {})

expireAsync(s, key, ttl, down) ==
  LET k == Namespaced(key) IN
  IF "expire" \in down
  THEN Settled(s, "resolved", JsFalse, {"expire"})
  ELSE IF ~s[k].present
       THEN Settled(s, "resolved", JsFalse, {})
       ELSE IF ttl > 0
            THEN Settled([s EXCEPT ![k].ttl = ttl], "resolved", JsTrue, {})
            ELSE Settled([s EXCEPT ![k] = Absent], "resolved", JsTrue, {})

(***************************************************************************)
(* A fetch callback is what it does when called: throw, or return v.       *)
(***************************************************************************)
Returns(v) == [v |-> v, throws |-> FALSE]

Throws == [v |-> JsUndefined, throws |-> TRUE]

Fetches ==
  {Returns(v) : v \in {JsFalse, JsZero, JsNull, Js("array", "[]"),
                        Js("date", "2024-09-14T00:00:00.000Z")}} \cup {Throws}

Fetched(r, n) == [store |-> r.store, val |-> r.val, out |-> r.out, failed |-> r.failed, fetched |-> n]

getOrSetCache(s, key, fetchFunction, expireSeconds, down) ==
  LET g == getAsync(s, key, down)
      caught(r, n) == Fetched(Settled(r.store, "resolved", JsNull, r.failed), n)
  IN  IF g.out = "rejected" THEN caught(g, 0)
      ELSE IF ~Truthy(g.val)
      THEN IF fetchFunction.throws THEN caught(g, 1)
           ELSE IF Truthy(fetchFunction.v)
                THEN LET w == setAsync(s, key, JSONstringify(fetchFunction.v).s, expireSeconds, down)
                         both == Settled(w.store, w.out, w.val, g.failed \cup w.failed)
                     IN  IF w.out = "rejected" THEN caught(both, 1)
                         ELSE Fetched(Settled(w.store, "resolved", fetchFunction.v, both.failed), 1)
                ELSE Fetched(Settled(s, "resolved", fetchFunction.v, g.failed), 1)
      ELSE LET p == JSONparse(g.val.s) IN
           IF p.throws THEN caught(g, 0)
           ELSE Fetched(Settled(s, "resolved", p.v, g.failed), 0)

(***************************************************************************)
(* The calls made on a redisserver instance, one action per call.  last    *)
(* records the latest call; for a getOrSetCache call it also says whether  *)
(* the call repeats the one before it (same key, callback and TTL, nothing *)
(* in between, the entry not expired) and what that one returned.          *)
(***************************************************************************)
NoFetch == Returns(JsUndefined)

Call(op, key, f, ttl, r, fetched, again) ==
  [key |-> key, ttl |-> ttl, out |-> r.out, failed |-> r.failed, fetched |-> fetched, op |-> op,
   f |-> f, again |-> again, ret |-> r.val,
   prevRet |-> IF again THEN last.ret ELSE JsUndefined,
   prevFetched |-> IF again THEN last.fetched ELSE 0,
   prevFailed |-> IF again THEN last.failed ELSE {}]

NoCall ==
  [key |-> "", ttl |-> 0, out |-> "resolved", failed |-> {}, fetched |-> 0,
   op |-> "none", f |-> NoFetch, again |-> FALSE, ret |-> JsUndefined,
   prevRet |-> JsUndefined, prevFetched |-> 0, prevFailed |-> {}]

CacheInit ==
  /\ store = [k \in {Namespaced(key) : key \in Keys} |-> Absent]
  /\ last = NoCall
  /\ expiredSince = FALSE
  /\ inflight = <<>>

GetAsync ==
  \E key \in Keys, down \in SUBSET {"get"} :
    LET r == getAsync(store, key, down) IN
    /\ store' = r.store
    /\ last' = Call("getAsync", key, NoFetch, 0, r, 0, FALSE)
    /\ expiredSince' = FALSE
    /\ UNCHANGED <<database, dlast, pool, hlast, inflight>>

SetAsync ==
  \E key \in Keys, value \in {"", "oops"}, ttl \in 0..MaxTTL, down \in SUBSET {"set", "expire"} :
    LET r == setAsync(store, key, value, ttl, down) IN
    /\ store' = r.store
    /\ last' = Call("setAsync", key, NoFetch, ttl, r, 0, FALSE)
    /\ expiredSince' = FALSE
    /\ UNCHANGED <<database, dlast, pool, hlast, inflight>>

DelAsync ==
  \E key \in Keys, down \in SUBSET {"del"} :
    LET r == delAsync(store, key, down) IN
    /\ store' = r.store
    /\ last' = Call("delAsync", key, NoFetch, 0, r, 0, FALSE)
    /\ expiredSince' = FALSE
    /\ UNCHANGED <<database, dlast, pool, hlast, inflight>>

ExpireAsync ==
  \E key \in Keys, ttl \in 0..MaxTTL, down \in SUBSET {"expire"} :
    LET r == expireAsync(store, key, ttl, down) IN
    /\ store' = r.store
    /\ last' = Call("expireAsync", key, NoFetch, ttl, r, 0, FALSE)
    /\ expiredSince' = FALSE
    /\ UNCHANGED <<database, dlast, pool, hlast, inflight>>

GetOrSetCache ==
  \E key \in Keys, f \in Fetches, ttl \in 0..MaxTTL, down \in SUBSET {"get", "set", "expire"} :
    LET r == getOrSetCache(store, key, f, ttl, down)
        again == /\ last.op = "getOrSetCache"
                 /\ last.key = key /\ last.f = f /\ last.ttl = ttl
                 /\ ~expiredSince
    IN  /\ store' = r.store
        /\ last' = Call("getOrSetCache", key, f, ttl, r, r.fetched, again)
        /\ expiredSince' = FALSE
        /\ UNCHANGED <<database, dlast, pool, hlast, inflight>>

\* one second passes: entries with an expiry lose a second, and go at zero
Tick ==
  /\ \E k \in DOMAIN store : store[k].present /\ store[k].ttl > 0
  /\ store' = [k \in DOMAIN store |->
                 IF store[k].present /\ store[k].ttl = 1 THEN Absent
                 ELSE IF store[k].present /\ store[k].ttl > 1
                      THEN [store[k] EXCEPT !.ttl = @ - 1]
                      ELSE store[k]]
  /\ expiredSince' = (expiredSince \/
                        (last.op = "getOrSetCache" /\ store[Namespaced(last.key)].present
                           /\ store[Namespaced(last.key)].ttl = 1))
  /\ UNCHANGED <<last, database, dlast, pool, hlast, inflight>>

(***************************************************************************)
(* The data-access layer (mysqlserver), bound to one table.                *)
(*                                                                         *)
(* An argument is a JavaScript value with its own enumerable entries:      *)
(* [t, ents, s, toks], ents the (key, value) pairs Object.entries gives    *)
(* and toks, for a string, the SQL tokens it reads as.  SQL text is a      *)
(* sequence of tokens, so the database below parses what the code built.   *)
(***************************************************************************)
MaxId == 2

tableName == "diaries"

primaryField == "id"

\* the columns of table diaries a caller can set (createdAt, which the
\* server fills in, is left out)
Columns == {"id", "title", "content"}

Titles == {"a", "ab"}

Contents == {"c"}

Ent(k, v) == [v |-> v, k |-> k]

Obj(ents) == [t |-> "object", s |-> "", ents |-> ents, toks |-> <<>>]

Arr(ents) == [t |-> "array", s |-> "", ents |-> ents, toks |-> <<>>]

\* a string: its entries are its characters under their indices
Str(s, toks) ==
  [t |-> "string", s |-> s,
   ents |-> [i \in 1..Len(s) |-> Ent(ToString(i - 1), Js("string", SubSeq(s, i, i)))],
   toks |-> toks]

ArgNull == [t |-> "null", s |-> "", ents |-> <<>>, toks |-> <<>>]

ArgUndefined == [t |-> "undefined", s |-> "", ents |-> <<>>, toks |-> <<>>]

Num(n) == Js("number", ToString(n))

\* typeof x === 'object' : objects, arrays and null
TypeofObject(x) == x.t \in {"object", "array", "null"}

IsArray(x) == x.t = "array"

\* Object.keys(x) throws a TypeError on null and undefined
KeysThrow(x) == x.t \in {"null", "undefined"}

ObjectValues(x) == [i \in 1..Len(x.ents) |-> x.ents[i].v]

\* a default parameter value replaces undefined
Default(x, d) == IF x.t = "undefined" THEN d ELSE x

RECURSIVE Flatten(_, _)
\* parts joined, sep between them
Flatten(parts, sep) ==
  IF Len(parts) = 0 THEN <<>>
  ELSE IF Len(parts) = 1 THEN parts[1]
  ELSE parts[1] \o sep \o Flatten(Tail(parts), sep)

RECURSIVE SelectSeq2(_, _)
\* the elements of seq whose flag in keep is TRUE
SelectSeq2(seq, keep) ==
  IF Len(seq) = 0 THEN <<>>
  ELSE (IF keep[1] THEN <<seq[1]>> ELSE <<>>) \o SelectSeq2(Tail(seq), Tail(keep))

\* the identifier quote of MySQL (the backtick), written ^ in this module
BQ == "^"

RECURSIVE DoubleQuotes(_)
\* every identifier quote of the name doubled
DoubleQuotes(fieldName) ==
  IF \A i \in 1..Len(fieldName) : SubSeq(fieldName, i, i) # BQ THEN fieldName
  ELSE (IF SubSeq(fieldName, 1, 1) = BQ THEN BQ \o BQ ELSE SubSeq(fieldName, 1, 1))
         \o DoubleQuotes(SubSeq(fieldName, 2, Len(fieldName)))

_escapeFieldName(fieldName) == BQ \o DoubleQuotes(fieldName) \o BQ

_buildWhereClause_Truthy(filter, likeFields) ==
  IF Len(filter.ents) = 0 THEN [where |-> <<>>, values |-> <<>>]
  ELSE
    LET n == Len(filter.ents)
        used == [i \in 1..n |-> Truthy(filter.ents[i].v)]
        cond == [i \in 1..n |->
                   IF \E j \in 1..Len(likeFields) : likeFields[j] = filter.ents[i].k
                   THEN <<_escapeFieldName(filter.ents[i].k), "LIKE", "?">>
                   ELSE <<_escapeFieldName(filter.ents[i].k), "=", "?">>]
        val == [i \in 1..n |->
                  IF \E j \in 1..Len(likeFields) : likeFields[j] = filter.ents[i].k
                  THEN Js("string", "%" \o filter.ents[i].v.s \o "%")
                  ELSE filter.ents[i].v]
        conditions == SelectSeq2(cond, used)
    IN  [where |-> IF Len(conditions) > 0
                   THEN <<"WHERE">> \o Flatten(conditions, <<"AND">>) ELSE <<>>,
         values |-> SelectSeq2(val, used)]

_buildWhereClause(filter, likeFields) ==
  IF Len(filter.ents) = 0 THEN [where |-> <<>>, values |-> <<>>]
  ELSE
    LET n == Len(filter.ents)
        used == [i \in 1..n |-> filter.ents[i].v.t \notin {"undefined", "null"}]
        cond == [i \in 1..n |->
                   IF \E j \in 1..Len(likeFields) : likeFields[j] = filter.ents[i].k
                   THEN <<_escapeFieldName(filter.ents[i].k), "LIKE", "?">>
                   ELSE <<_escapeFieldName(filter.ents[i].k), "=", "?">>]
        val == [i \in 1..n |->
                  IF \E j \in 1..Len(likeFields) : likeFields[j] = filter.ents[i].k
                  THEN Js("string", "%" \o filter.ents[i].v.s \o "%")
                  ELSE filter.ents[i].v]
        conditions == SelectSeq2(cond, used)
    IN  [where |-> IF Len(conditions) > 0
                   THEN <<"WHERE">> \o Flatten(conditions, <<"AND">>) ELSE <<>>,
         values |-> SelectSeq2(val, used)]

_buildOrderByClause(orderBy) ==
  IF orderBy.t = "string" /\ orderBy.toks # <<>>
  THEN <<"ORDER", "BY">> \o orderBy.toks
  ELSE IF TypeofObject(orderBy) /\ Len(orderBy.ents) > 0
  THEN <<"ORDER", "BY">> \o
       Flatten([i \in 1..Len(orderBy.ents) |->
                  <<_escapeFieldName(orderBy.ents[i].k),
                    IF orderBy.ents[i].v \in {Js("number", "-1"), Js("string", "DESC"), Js("string", "desc")}
                    THEN "DESC" ELSE "ASC">>], <<",">>)
  ELSE <<"ORDER", "BY", _escapeFieldName(primaryField), "DESC">>

(***************************************************************************)
(* The database behind the connection: one table of rows [id, title,      *)
(* content], id the auto-increment primary key, title and content NOT NULL *)
(* (the DDL in models/diary.mysql.js).  Execute parses the                 *)
(* statement's tokens, binds the values to its placeholders in order and   *)
(* answers as the server does; a statement it cannot parse, or that names  *)
(* an unknown column, is an error.                                         *)
(***************************************************************************)
Db(tbl, nextId) == [nextId |-> nextId, table |-> tbl]

\* the first position of token kw in toks, 0 when it is not there
Pos(toks, kw) ==
  LET first(at) == IF at = {} THEN 0 ELSE CHOOSE i \in at : \A j \in at : i <= j
  IN  first({i \in 1..Len(toks) : toks[i] = kw})

From(toks, i) == SubSeq(toks, i, Len(toks))

\* the table and its columns as a statement names them, quoted
QuotedName == [c \in Columns \cup {tableName} |-> _escapeFieldName(c)]

\* the column a token names, bare or quoted; "" when it names none
ColumnOf(tok) ==
  IF tok \in Columns THEN tok
  ELSE IF \E c \in Columns : QuotedName[c] = tok THEN CHOOSE c \in Columns : QuotedName[c] = tok
  ELSE ""

\* the numerals the model's numbers print as
Literals == {ToString(n) : n \in 0..MaxId + 1}

RECURSIVE ParseConds(_, _)
\* col op operand (AND col op operand)*: [ok, conds, values], values the
\* bind values left over
ParseConds(toks, values) ==
  IF Len(toks) < 3 \/ ColumnOf(toks[1]) = "" \/ toks[2] \notin {"=", "LIKE"}
  THEN [values |-> values, ok |-> FALSE, conds |-> <<>>]
  ELSE
    LET bound == toks[3] = "?"
        usable == IF bound THEN Len(values) > 0 ELSE toks[3] \in Literals
        v == IF bound THEN values[1] ELSE Js("number", toks[3])
        c == [v |-> v, op |-> toks[2], col |-> ColumnOf(toks[1])]
        left == IF bound THEN Tail(values) ELSE values
    IN  IF ~usable THEN [values |-> values, ok |-> FALSE, conds |-> <<>>]
        ELSE IF Len(toks) = 3 THEN [values |-> left, ok |-> TRUE, conds |-> <<c>>]
        ELSE IF toks[4] # "AND" THEN [values |-> values, ok |-> FALSE, conds |-> <<>>]
        ELSE LET more == ParseConds(From(toks, 5), left) IN
             [values |-> more.values, ok |-> more.ok, conds |-> <<c>> \o more.conds]

\* an optional WHERE clause: nothing, or WHERE and at least one condition
ParseWhere(toks, values) ==
  IF Len(toks) = 0 THEN [values |-> values, ok |-> TRUE, conds |-> <<>>]
  ELSE IF toks[1] # "WHERE" THEN [values |-> values, ok |-> FALSE, conds |-> <<>>]
  ELSE ParseConds(Tail(toks), values)

ColumnText(row, col) ==
  IF col = "id" THEN ToString(row.id) ELSE IF col = "title" THEN row.title ELSE row.content

\* col = v compares the printed values (MySQL coerces '1' to 1); a NULL
\* operand matches no row
Matches(row, c) ==
  /\ c.v.t \notin {"null", "undefined"}
  /\ IF c.op = "=" THEN ColumnText(row, c.col) = c.v.s
     ELSE LET text == ColumnText(row, c.col) IN
          \E i \in 1..Len(text) + 1, j \in 0..Len(text) : c.v.s = "%" \o SubSeq(text, i, j) \o "%"

Selected(tbl, conds) == {r \in tbl : \A i \in 1..Len(conds) : Matches(r, conds[i])}

RECURSIVE ById(_, _)
\* the rows of set rs as a sequence ordered by id, descending or ascending
ById(rs, desc) ==
  IF rs = {} THEN <<>>
  ELSE LET r == CHOOSE x \in rs : \A y \in rs : IF desc THEN x.id >= y.id ELSE x.id <= y.id
       IN  <<r>> \o ById(rs \ {r}, desc)

RECURSIVE Unjoin(_, _, _)
\* toks read as items of n tokens each with sep between them: [ok, items]
Unjoin(toks, n, sep) ==
  IF Len(toks) < n THEN [ok |-> FALSE, items |-> <<>>]
  ELSE IF Len(toks) = n THEN [ok |-> TRUE, items |-> <<toks>>]
  ELSE IF toks[n + 1] # sep THEN [ok |-> FALSE, items |-> <<>>]
  ELSE LET more == Unjoin(From(toks, n + 2), n, sep) IN
       [ok |-> more.ok, items |-> <<SubSeq(toks, 1, n)>> \o more.items]

Failed(db) ==
  [db |-> db, err |-> TRUE, kind |-> "error", rows |-> <<>>, cols |-> <<>>,
   cnt |-> 0, affectedRows |-> 0, insertId |-> 0]

Header(db, affected, insertId) ==
  [db |-> db, err |-> FALSE, kind |-> "header", rows |-> <<>>, cols |-> <<>>,
   cnt |-> 0, affectedRows |-> affected, insertId |-> insertId]

IsNat(v) == v.t = "number" /\ v.s \in Literals

NatOf(v) == CHOOSE n \in 0..MaxId + 1 : ToString(n) = v.s

\* SELECT list FROM table [WHERE ..] [ORDER BY col dir] [LIMIT 1 | LIMIT ? OFFSET ?]
ExecSelect(db, sql, values) ==
  LET answer(list, w, order, limit) ==
        LET orderOk == \/ order = <<>>
                       \/ /\ Len(order) = 4 /\ order[2] = "BY"
                          /\ ColumnOf(order[3]) = "id" /\ order[4] \in {"ASC", "DESC"}
            paged == limit = <<"LIMIT", "?", "OFFSET", "?">>
            limitOk == \/ limit \in {<<>>, <<"LIMIT", "1">>}
                       \/ paged /\ Len(w.values) >= 2 /\ IsNat(w.values[1]) /\ IsNat(w.values[2])
            counting == list \in {<<"COUNT", "(", QuotedName[c], ")", "AS", "CNT">> : c \in Columns}
                          \cup {<<"COUNT", "(", "*", ")", "as", "CNT">>}
            cols == IF list = <<"*">> THEN <<"id", "title", "content">>
                    ELSE IF Len(list) = 1 /\ list[1] \in Columns THEN list ELSE <<>>
            page(hit, skip, take) ==
              SubSeq(hit, skip + 1, IF skip + take < Len(hit) THEN skip + take ELSE Len(hit))
            rows(hit) ==
              page(hit, IF paged THEN NatOf(w.values[2]) ELSE 0,
                   IF paged THEN NatOf(w.values[1]) ELSE IF limit = <<>> THEN Len(hit) ELSE 1)
        IN  IF ~w.ok \/ ~orderOk \/ ~limitOk \/ (~counting /\ cols = <<>>)
            THEN Failed(db)
            ELSE IF counting
                   THEN [db |-> db, err |-> FALSE, kind |-> "count", rows |-> <<>>, cols |-> <<>>,
                         cnt |-> Cardinality(Selected(db.table, w.conds)), affectedRows |-> 0,
                         insertId |-> 0]
            ELSE [db |-> db, err |-> FALSE, kind |-> "rows",
                  rows |-> rows(ById(Selected(db.table, w.conds),
                                     order # <<>> /\ order[4] = "DESC")),
                  cols |-> cols, cnt |-> 0, affectedRows |-> 0, insertId |-> 0]
      clauses(from, rest, o, l) ==
        IF \/ from < 3 \/ Len(sql) < from + 1 \/ sql[from + 1] # QuotedName[tableName]
           \/ (o > 0 /\ l > 0 /\ l < o)
        THEN Failed(db)
        ELSE answer(SubSeq(sql, 2, from - 1),
                    ParseWhere(SubSeq(rest, 1, (IF o > 0 THEN o ELSE IF l > 0 THEN l
                                                ELSE Len(rest) + 1) - 1), values),
                    IF o > 0 THEN SubSeq(rest, o, (IF l > 0 THEN l ELSE Len(rest) + 1) - 1)
                    ELSE <<>>,
                    IF l > 0 THEN From(rest, l) ELSE <<>>)
      after(from, rest) == clauses(from, rest, Pos(rest, "ORDER"), Pos(rest, "LIMIT"))
      select(from) == after(from, From(sql, from + 2))
  IN  select(Pos(sql, "FROM"))

\* row with the (column, value) assignments made: [ok, row]; an unknown
\* column, or a value the column cannot hold, is an error
RECURSIVE Assign(_, _, _)
Assign(row, cols, vals) ==
  IF Len(cols) = 0 THEN [ok |-> TRUE, row |-> row]
  ELSE
    LET c == ColumnOf(cols[1])
        v == vals[1]
        more == Assign(IF c = "id" /\ IsNat(v) /\ NatOf(v) \in 1..MaxId
                         THEN [row EXCEPT !.id = NatOf(v)]
                       ELSE IF c = "title" /\ v.t = "string" /\ v.s \in Titles
                         THEN [row EXCEPT !.title = v.s]
                       ELSE IF c = "content" /\ v.t = "string" /\ v.s \in Contents
                         THEN [row EXCEPT !.content = v.s]
                       ELSE row,
                       Tail(cols), Tail(vals))
        ok == \/ c = "id" /\ IsNat(v) /\ NatOf(v) \in 1..MaxId
              \/ c = "title" /\ v.t = "string" /\ v.s \in Titles
              \/ c = "content" /\ v.t = "string" /\ v.s \in Contents
    IN  [ok |-> ok /\ more.ok, row |-> more.row]

\* INSERT INTO table (c, ..) VALUES (?, ..) [ON DUPLICATE KEY UPDATE c = VALUES(c), ..]
ExecInsert(db, sql, values) ==
  LET close == Pos(sql, ")")
      cols == Unjoin(SubSeq(sql, 5, close - 1), 1, ",")
      n == Len(cols.items)
      tail == From(sql, close + 1)
      marks == <<"VALUES", "(">> \o Flatten([i \in 1..n |-> <<"?">>], <<",">>) \o <<")">>
      dup == From(tail, Len(marks) + 1)
      onDup == <<"ON", "DUPLICATE", "KEY", "UPDATE">> \o
               Flatten([i \in 1..n |->
                          <<cols.items[i][1], "=", "VALUES", "(", cols.items[i][1], ")">>], <<",">>)
      names == [i \in 1..n |-> cols.items[i][1]]
      a == Assign([id |-> 0, title |-> "", content |-> ""], names, values)
      row == IF a.row.id = 0 THEN [a.row EXCEPT !.id = db.nextId] ELSE a.row
      old == {r \in db.table : r.id = row.id}
      next == IF row.id >= db.nextId THEN row.id + 1 ELSE db.nextId
  IN  IF \/ Len(sql) < 4 \/ sql[2] # "INTO" \/ sql[3] # QuotedName[tableName]
         \/ sql[4] # "(" \/ close < 6 \/ ~cols.ok
         \/ SubSeq(tail, 1, Len(marks)) # marks \/ dup \notin {<<>>, onDup}
         \/ Len(values) < n \/ ~a.ok \/ a.row.title = "" \/ a.row.content = ""
         \/ Cardinality({names[i] : i \in 1..n}) # n
         \/ row.id > MaxId
      THEN Failed(db)
      ELSE IF old = {} THEN Header(Db(db.table \cup {row}, next), 1, row.id)
      ELSE IF dup = <<>> THEN Failed(db)
      ELSE Header(Db((db.table \ old) \cup {row}, next), IF {row} = old THEN 1 ELSE 2, row.id)

\* UPDATE table SET c = ?, .. [WHERE ..]
ExecUpdate(db, sql, values) ==
  LET wh == Pos(sql, "WHERE")
      endSet == IF wh > 0 THEN wh ELSE Len(sql) + 1
      sets == Unjoin(SubSeq(sql, 4, endSet - 1), 3, ",")
      n == Len(sets.items)
      setOk == sets.ok /\ \A i \in 1..n : sets.items[i][2] = "=" /\ sets.items[i][3] = "?"
      names == [i \in 1..n |-> sets.items[i][1]]
      w == ParseWhere(From(sql, endSet), SubSeq(values, n + 1, Len(values)))
      hit == Selected(db.table, w.conds)
      new == {Assign(r, names, values).row : r \in hit}
      tbl == (db.table \ hit) \cup new
  IN  IF \/ Len(sql) < 3 \/ sql[2] # QuotedName[tableName] \/ sql[3] # "SET"
         \/ ~setOk \/ Len(values) < n \/ ~w.ok
         \/ \E r \in hit : ~Assign(r, names, values).ok
         \/ (\E r1, r2 \in tbl : r1.id = r2.id /\ r1 # r2) \/ Cardinality(tbl) # Cardinality(db.table)
      THEN Failed(db)
      ELSE Header(Db(tbl, db.nextId), Cardinality(hit), 0)

\* DELETE FROM table [WHERE ..]
ExecDelete(db, sql, values) ==
  LET w == ParseWhere(From(sql, 4), values)
      hit == Selected(db.table, w.conds)
  IN  IF Len(sql) < 3 \/ sql[2] # "FROM" \/ sql[3] # QuotedName[tableName] \/ ~w.ok
      THEN Failed(db)
      ELSE Header(Db(db.table \ hit, db.nextId), Cardinality(hit), 0)

Execute(db, sql, values) ==
  IF Len(sql) = 0 THEN Failed(db)
  ELSE CASE sql[1] = "SELECT" -> ExecSelect(db, sql, values)
         [] sql[1] = "INSERT" -> ExecInsert(db, sql, values)
         [] sql[1] = "UPDATE" -> ExecUpdate(db, sql, values)
         [] sql[1] = "DELETE" -> ExecDelete(db, sql, values)
         [] OTHER -> Failed(db)

(***************************************************************************)
(* The operations of mysqlserver.  Each takes the world w = [db, store]    *)
(* (the database behind the connection and the cache backend) and gives    *)
(* [w, out, ret, sent, key]: the world after it, how its promise settled,  *)
(* the value or error it settled with, the statements it handed to         *)
(* connection.query, and the cache key it built (a cached read; "" when it *)
(* built none).  qfail says that the connection fails every query.         *)
(***************************************************************************)
World(d, s) == [store |-> s, db |-> d]

Resolved(w, ret, sent) == [key |-> "", out |-> "resolved", w |-> w, ret |-> ret, sent |-> sent]

Rejected(w, message, sent) ==
  [key |-> "", out |-> "rejected", w |-> w, ret |-> Js("error", message), sent |-> sent]

RECURSIVE JoinStr(_, _)
\* Array.prototype.join on strings
JoinStr(parts, sep) ==
  IF Len(parts) = 0 THEN ""
  ELSE IF Len(parts) = 1 THEN parts[1]
  ELSE parts[1] \o sep \o JoinStr(Tail(parts), sep)

Quoted(text) == "\"" \o text \o "\""

\* a result row as the driver gives it, printed as JSON
RowJson(row, cols) ==
  "{" \o JoinStr([i \in 1..Len(cols) |->
                    Quoted(cols[i]) \o ":" \o
                    (IF cols[i] = "id" THEN ToString(row.id)
                     ELSE Quoted(ColumnText(row, cols[i])))], ",") \o "}"

\* what connection.query resolves with for a SELECT: an array of rows
ResultRows(e) ==
  IF e.kind = "count" THEN <<"{\"CNT\":" \o ToString(e.cnt) \o "}">>
  ELSE [i \in 1..Len(e.rows) |-> RowJson(e.rows[i], e.cols)]

ArrayValue(items) == Js("array", "[" \o JoinStr(items, ",") \o "]")

queryAsync_Swallowing(w, sql, values, qfail) ==
  LET settle(e) ==
        IF qfail \/ e.err
        THEN [throws |-> FALSE, w |-> w, sent |-> <<[values |-> values, sql |-> sql]>>, res |-> Failed(w.db)]
        ELSE [throws |-> FALSE, w |-> World(e.db, w.store), sent |-> <<[values |-> values, sql |-> sql]>>, res |-> e]
  IN  settle(Execute(w.db, sql, values))

queryAsync(w, sql, values, qfail) ==
  LET settle(e) ==
        IF qfail \/ e.err
        THEN [throws |-> TRUE, w |-> w, sent |-> <<[values |-> values, sql |-> sql]>>, res |-> Failed(w.db)]
        ELSE [throws |-> FALSE, w |-> World(e.db, w.store), sent |-> <<[values |-> values, sql |-> sql]>>, res |-> e]
  IN  settle(Execute(w.db, sql, values))

Star == Str("*", <<"*">>)

NoOrder == Str("", <<>>)

EmptyObject == Obj(<<>>)

\* the filter check of the find and count operations
NotAnObject(x) == ~TypeofObject(x) \/ IsArray(x)

allAsync(w, select0, orderBy0, qfail) ==
  LET select == Default(select0, Star)
      orderBy == Default(orderBy0, NoOrder)
      sql == <<"SELECT">> \o select.toks \o <<"FROM", _escapeFieldName(tableName)>>
               \o _buildOrderByClause(orderBy)
      then(q) == IF q.throws THEN Rejected(q.w, "Error", q.sent)
                 ELSE Resolved(q.w, IF Len(ResultRows(q.res)) = 0 THEN JsFalse
                                    ELSE ArrayValue(ResultRows(q.res)), q.sent)
  IN  IF orderBy.t = "null" THEN Rejected(w, "TypeError", <<>>)
      ELSE then(queryAsync(w, sql, <<>>, qfail))

findOneByFilterAsync(w, filter0, likeFields, select0, qfail) ==
  LET filter == Default(filter0, EmptyObject)
      select == Default(select0, Star)
      b == _buildWhereClause(filter, likeFields)
      sql == <<"SELECT">> \o select.toks \o <<"FROM", _escapeFieldName(tableName)>>
               \o b.where \o <<"LIMIT", "1">>
      then(q) == IF q.throws THEN Rejected(q.w, "Error", q.sent)
                 ELSE Resolved(q.w, IF Len(ResultRows(q.res)) > 0
                                    THEN Js("object", ResultRows(q.res)[1]) ELSE JsFalse, q.sent)
  IN  IF NotAnObject(filter) THEN Rejected(w, "Filter must be an object", <<>>)
      ELSE IF KeysThrow(filter) THEN Rejected(w, "TypeError", <<>>)
      ELSE then(queryAsync(w, sql, b.values, qfail))

findByFilterAsync(w, filter0, likeFields, select0, orderBy0, qfail) ==
  LET filter == Default(filter0, EmptyObject)
      select == Default(select0, Star)
      orderBy == Default(orderBy0, NoOrder)
      b == _buildWhereClause(filter, likeFields)
      sql == <<"SELECT">> \o select.toks \o <<"FROM", _escapeFieldName(tableName)>>
               \o b.where \o _buildOrderByClause(orderBy)
      then(q) == IF q.throws THEN Rejected(q.w, "Error", q.sent)
                 ELSE Resolved(q.w, ArrayValue(ResultRows(q.res)), q.sent)
  IN  IF NotAnObject(filter) THEN Rejected(w, "Filter must be an object", <<>>)
      ELSE IF KeysThrow(filter) \/ orderBy.t = "null" THEN Rejected(w, "TypeError", <<>>)
      ELSE then(queryAsync(w, sql, b.values, qfail))

countByFilterAsync(w, filter0, likeFields, qfail) ==
  LET filter == Default(filter0, EmptyObject)
      b == _buildWhereClause(filter, likeFields)
      sql == <<"SELECT", "COUNT", "(", _escapeFieldName(primaryField), ")", "AS", "CNT",
               "FROM", _escapeFieldName(tableName)>> \o b.where
      then(q) == IF q.throws THEN Rejected(q.w, "Error", q.sent)
                 ELSE Resolved(q.w, IF Len(ResultRows(q.res)) > 0 THEN Num(q.res.cnt) ELSE JsZero,
                               q.sent)
  IN  IF NotAnObject(filter) THEN Rejected(w, "Filter must be an object", <<>>)
      ELSE IF KeysThrow(filter) THEN Rejected(w, "TypeError", <<>>)
      ELSE then(queryAsync(w, sql, b.values, qfail))

findByPageAsync_OffByOnePage(w, filter0, likeFields, select0, page, pageSize, sort0, qfail) ==
  LET filter == Default(filter0, EmptyObject)
      select == Default(select0, Star)
      sort == Default(sort0, EmptyObject)
      b == _buildWhereClause(filter, likeFields)
      offset == page * pageSize
      sql == <<"SELECT">> \o select.toks \o <<"FROM", _escapeFieldName(tableName)>>
               \o b.where \o _buildOrderByClause(sort) \o <<"LIMIT", "?", "OFFSET", "?">>
      countSql == <<"SELECT", "COUNT", "(", "*", ")", "as", "CNT",
                    "FROM", _escapeFieldName(tableName)>> \o b.where
      paginated(documents, totalCount) ==
        Js("object",
           "{\"documents\":" \o ArrayValue(ResultRows(documents.res)).s
             \o ",\"page\":" \o ToString(page)
             \o ",\"pageSize\":" \o ToString(pageSize)
             \o ",\"totalCount\":" \o ToString(totalCount)
             \o ",\"totalPages\":" \o ToString((totalCount + pageSize - 1) \div pageSize) \o "}")
      counted(documents, result) ==
        IF result.throws THEN Rejected(result.w, "Error", documents.sent \o result.sent)
        ELSE Resolved(result.w,
                      paginated(documents,
                                IF Len(ResultRows(result.res)) > 0 THEN result.res.cnt ELSE 0),
                      documents.sent \o result.sent)
      then(documents) ==
        IF documents.throws THEN Rejected(documents.w, "Error", documents.sent)
        ELSE counted(documents, queryAsync(documents.w, countSql, b.values, qfail))
  IN  IF KeysThrow(filter) \/ sort.t = "null" THEN Rejected(w, "TypeError", <<>>)
      ELSE then(queryAsync(w, sql, b.values \o <<Num(pageSize), Num(offset)>>, qfail))

findByPageAsync(w, filter0, likeFields, select0, page, pageSize, sort0, qfail) ==
  LET filter == Default(filter0, EmptyObject)
      select == Default(select0, Star)
      sort == Default(sort0, EmptyObject)
      b == _buildWhereClause(filter, likeFields)
      offset == (page - 1) * pageSize
      sql == <<"SELECT">> \o select.toks \o <<"FROM", _escapeFieldName(tableName)>>
               \o b.where \o _buildOrderByClause(sort) \o <<"LIMIT", "?", "OFFSET", "?">>
      countSql == <<"SELECT", "COUNT", "(", "*", ")", "as", "CNT",
                    "FROM", _escapeFieldName(tableName)>> \o b.where
      paginated(documents, totalCount) ==
        Js("object",
           "{\"documents\":" \o ArrayValue(ResultRows(documents.res)).s
             \o ",\"page\":" \o ToString(page)
             \o ",\"pageSize\":" \o ToString(pageSize)
             \o ",\"totalCount\":" \o ToString(totalCount)
             \o ",\"totalPages\":" \o ToString((totalCount + pageSize - 1) \div pageSize) \o "}")
      counted(documents, result) ==
        IF result.throws THEN Rejected(result.w, "Error", documents.sent \o result.sent)
        ELSE Resolved(result.w,
                      paginated(documents,
                                IF Len(ResultRows(result.res)) > 0 THEN result.res.cnt ELSE 0),
                      documents.sent \o result.sent)
      then(documents) ==
        IF documents.throws THEN Rejected(documents.w, "Error", documents.sent)
        ELSE counted(documents, queryAsync(documents.w, countSql, b.values, qfail))
  IN  IF KeysThrow(filter) \/ sort.t = "null" THEN Rejected(w, "TypeError", <<>>)
      ELSE then(queryAsync(w, sql, b.values \o <<Num(pageSize), Num(offset)>>, qfail))

insertAsync(w, datas, qfail) ==
  LET columns == [i \in 1..Len(datas.ents) |-> <<_escapeFieldName(datas.ents[i].k)>>]
      placeholders == [i \in 1..Len(datas.ents) |-> <<"?">>]
      sql == <<"INSERT", "INTO", _escapeFieldName(tableName), "(">> \o Flatten(columns, <<",">>)
               \o <<")", "VALUES", "(">> \o Flatten(placeholders, <<",">>) \o <<")">>
      then(q) == IF q.throws THEN Rejected(q.w, "Error", q.sent)
                 ELSE Resolved(q.w, Num(q.res.insertId), q.sent)
  IN  IF NotAnObject(datas) THEN Rejected(w, "Data must be an object", <<>>)
      ELSE IF KeysThrow(datas) THEN Rejected(w, "TypeError", <<>>)
      ELSE IF Len(datas.ents) = 0 THEN Rejected(w, "Data object cannot be empty", <<>>)
      ELSE then(queryAsync(w, sql, ObjectValues(datas), qfail))

\* filter.trim() !== '' : the string holds something
NotBlank(x) == x.t = "string" /\ x.toks # <<>>

updateByFilterAsync_AlwaysTrue(w, filter, datas, qfail) ==
  LET setClause == Flatten([i \in 1..Len(datas.ents) |->
                              <<_escapeFieldName(datas.ents[i].k), "=", "?">>], <<",">>)
      mapping == TypeofObject(filter) /\ ~IsArray(filter)
      whereClause == IF mapping
                     THEN <<"WHERE">> \o Flatten([i \in 1..Len(filter.ents) |->
                                                   <<_escapeFieldName(filter.ents[i].k), "=", "?">>],
                                                 <<"AND">>)
                     ELSE filter.toks
      values == ObjectValues(datas) \o (IF mapping THEN ObjectValues(filter) ELSE <<>>)
      sql == <<"UPDATE", _escapeFieldName(tableName), "SET">> \o setClause \o whereClause
      then(q) == IF q.throws THEN Rejected(q.w, "Error", q.sent)
                 ELSE Resolved(q.w, IF q.res.affectedRows >= 0 THEN JsTrue ELSE JsFalse, q.sent)
  IN  IF NotAnObject(datas) THEN Rejected(w, "Error: Data must be an object", <<>>)
      ELSE IF KeysThrow(datas) THEN Rejected(w, "Error: TypeError", <<>>)
      ELSE IF Len(datas.ents) = 0 THEN Rejected(w, "Error: Data must be an object", <<>>)
      ELSE IF mapping /\ KeysThrow(filter) THEN Rejected(w, "Error: TypeError", <<>>)
      ELSE IF ~mapping /\ ~NotBlank(filter)
           THEN Rejected(w, "Error: A valid filter condition must be provided.", <<>>)
      ELSE then(queryAsync(w, sql, values, qfail))

updateByFilterAsync(w, filter, datas, qfail) ==
  LET setClause == Flatten([i \in 1..Len(datas.ents) |->
                              <<_escapeFieldName(datas.ents[i].k), "=", "?">>], <<",">>)
      mapping == TypeofObject(filter) /\ ~IsArray(filter)
      whereClause == IF mapping
                     THEN <<"WHERE">> \o Flatten([i \in 1..Len(filter.ents) |->
                                                   <<_escapeFieldName(filter.ents[i].k), "=", "?">>],
                                                 <<"AND">>)
                     ELSE filter.toks
      values == ObjectValues(datas) \o (IF mapping THEN ObjectValues(filter) ELSE <<>>)
      sql == <<"UPDATE", _escapeFieldName(tableName), "SET">> \o setClause \o whereClause
      then(q) == IF q.throws THEN Rejected(q.w, "Error", q.sent)
                 ELSE Resolved(q.w, IF q.res.affectedRows > 0 THEN JsTrue ELSE JsFalse, q.sent)
  IN  IF NotAnObject(datas) THEN Rejected(w, "Error: Data must be an object", <<>>)
      ELSE IF KeysThrow(datas) THEN Rejected(w, "Error: TypeError", <<>>)
      ELSE IF Len(datas.ents) = 0 THEN Rejected(w, "Error: Data must be an object", <<>>)
      ELSE IF mapping /\ KeysThrow(filter) THEN Rejected(w, "Error: TypeError", <<>>)
      ELSE IF ~mapping /\ ~NotBlank(filter)
           THEN Rejected(w, "Error: A valid filter condition must be provided.", <<>>)
      ELSE then(queryAsync(w, sql, values, qfail))

upsertAsync(w, filter, data, qfail) ==
  LET columns == [i \in 1..Len(data.ents) |-> <<_escapeFieldName(data.ents[i].k)>>]
      updateSet == [i \in 1..Len(data.ents) |->
                      <<_escapeFieldName(data.ents[i].k), "=", "VALUES", "(",
                        _escapeFieldName(data.ents[i].k), ")">>]
      sql == <<"INSERT", "INTO", _escapeFieldName(tableName), "(">> \o Flatten(columns, <<",">>)
               \o <<")", "VALUES", "(">> \o Flatten([i \in 1..Len(data.ents) |-> <<"?">>], <<",">>)
               \o <<")", "ON", "DUPLICATE", "KEY", "UPDATE">> \o Flatten(updateSet, <<",">>)
      then(q) == IF q.throws THEN Rejected(q.w, "Error", q.sent)
                 ELSE Resolved(q.w, IF q.res.affectedRows > 0 THEN JsTrue ELSE JsFalse, q.sent)
  IN  IF NotAnObject(filter) THEN Rejected(w, "Filter must be a non-empty object", <<>>)
      ELSE IF KeysThrow(filter) THEN Rejected(w, "TypeError", <<>>)
      ELSE IF Len(filter.ents) = 0 THEN Rejected(w, "Filter must be a non-empty object", <<>>)
      ELSE IF NotAnObject(data) THEN Rejected(w, "Data must be a non-empty object", <<>>)
      ELSE IF KeysThrow(data) THEN Rejected(w, "TypeError", <<>>)
      ELSE IF Len(data.ents) = 0 THEN Rejected(w, "Data must be a non-empty object", <<>>)
      ELSE then(queryAsync(w, sql, ObjectValues(data), qfail))

deleteByFilterAsync_SkippingNulls(w, filter, qfail) ==
  LET mapping == TypeofObject(filter) /\ ~IsArray(filter)
      whereClause == IF mapping THEN _buildWhereClause(filter, <<>>).where
                     ELSE <<"WHERE">> \o filter.toks
      values == IF mapping THEN _buildWhereClause(filter, <<>>).values ELSE <<>>
      sql == <<"DELETE", "FROM", _escapeFieldName(tableName)>> \o whereClause
      then(q) == IF q.throws THEN Rejected(q.w, "Error", q.sent)
                 ELSE Resolved(q.w, IF q.res.affectedRows > 0 THEN JsTrue ELSE JsFalse, q.sent)
  IN  IF mapping /\ KeysThrow(filter) THEN Rejected(w, "Error: TypeError", <<>>)
      ELSE IF ~mapping /\ ~NotBlank(filter)
           THEN Rejected(w, "Error: a valid filter condition must be provided", <<>>)
      ELSE then(queryAsync(w, sql, values, qfail))

deleteByFilterAsync(w, filter, qfail) ==
  LET mapping == TypeofObject(filter) /\ ~IsArray(filter)
      whereClause == IF mapping
                     THEN <<"WHERE">> \o Flatten([i \in 1..Len(filter.ents) |->
                                                   <<_escapeFieldName(filter.ents[i].k), "=", "?">>],
                                                 <<"AND">>)
                     ELSE <<"WHERE">> \o filter.toks
      values == IF mapping THEN ObjectValues(filter) ELSE <<>>
      sql == <<"DELETE", "FROM", _escapeFieldName(tableName)>> \o whereClause
      then(q) == IF q.throws THEN Rejected(q.w, "Error", q.sent)
                 ELSE Resolved(q.w, IF q.res.affectedRows > 0 THEN JsTrue ELSE JsFalse, q.sent)
  IN  IF mapping /\ KeysThrow(filter) THEN Rejected(w, "Error: TypeError", <<>>)
      ELSE IF ~mapping /\ ~NotBlank(filter)
           THEN Rejected(w, "Error: a valid filter condition must be provided", <<>>)
      ELSE then(queryAsync(w, sql, values, qfail))

(***************************************************************************)
(* The cached reads.  Each builds its cache key and calls getOrSetCache on *)
(* what mysql.core.js imports as redisServer, the redisserver class.       *)
(***************************************************************************)
\* JSON.stringify of an argument; an object's undefined entries are left out
ArgJson(x) ==
  CASE x.t = "object" ->
         "{" \o JoinStr(SelectSeq2([i \in 1..Len(x.ents) |->
                                      Quoted(x.ents[i].k) \o ":" \o JSONstringify(x.ents[i].v).s],
                                   [i \in 1..Len(x.ents) |-> x.ents[i].v.t # "undefined"]), ",") \o "}"
    [] x.t = "array" ->
         "[" \o JoinStr([i \in 1..Len(x.ents) |->
                           IF x.ents[i].v.t = "undefined" THEN "null"
                           ELSE JSONstringify(x.ents[i].v).s], ",") \o "]"
    [] x.t = "string" -> Quoted(x.s)
    [] OTHER -> "null"

\* what Array.prototype.join prints an element as
Printed(x) ==
  CASE x.t = "string" -> x.s
    [] x.t = "object" -> "[object Object]"
    [] x.t = "array" -> JoinStr([i \in 1..Len(x.ents) |-> x.ents[i].v.s], ",")
    [] OTHER -> ""

allCacheKey(select, orderBy) ==
  JoinStr(<<"mysql", tableName, Printed(select), Printed(orderBy)>>, "__")

\* getOrSetCache(key, callback, expireSeconds) on an instance, the callback
\* an operation of this layer that would settle as r
CacheAside(w, cacheKey, r, expireSeconds, down) ==
  LET then(c) == [key |-> cacheKey, out |-> c.out,
                  w |-> World(IF c.fetched = 1 THEN r.w.db ELSE w.db, c.store),
                  ret |-> c.val, sent |-> IF c.fetched = 1 THEN r.sent ELSE <<>>]
  IN  then(getOrSetCache(w.store, cacheKey,
                         IF r.out = "rejected" THEN Throws ELSE Returns(r.ret),
                         expireSeconds, down))

\* the static members of class redisserver: it declares none, all its
\* methods are instance methods
RedisStatics == {}

\* redisServer.getOrSetCache(...): a call of a member of the class itself
redisServer_getOrSetCache(w, cacheKey, r, expireSeconds) ==
  IF "getOrSetCache" \in RedisStatics
  THEN CacheAside(w, cacheKey, r, expireSeconds, {})
  ELSE [Rejected(w, "TypeError: redisServer.getOrSetCache is not a function", <<>>)
          EXCEPT !.key = cacheKey]

expireSeconds == 60

allFromCacheAsync(w, select0, orderBy0, qfail) ==
  LET select == Default(select0, Star)
      orderBy == Default(orderBy0, NoOrder)
  IN  redisServer_getOrSetCache(w, allCacheKey(select, orderBy),
                                allAsync(w, select, orderBy, qfail), expireSeconds)

findOneByFilterFromCacheAsync(w, filter0, likeFields, select0, qfail) ==
  LET filter == Default(filter0, EmptyObject)
      select == Default(select0, Star)
      cacheKey == JoinStr(<<"mysql", tableName, ArgJson(filter), Printed(select)>>, "__")
  IN  IF NotAnObject(filter) THEN Rejected(w, "Data must be an object", <<>>)
      ELSE redisServer_getOrSetCache(w, cacheKey,
                                     findOneByFilterAsync(w, filter, likeFields, select, qfail), expireSeconds)

findByFilterFromCacheAsync(w, filter0, likeFields, select0, orderBy0, qfail) ==
  LET filter == Default(filter0, EmptyObject)
      select == Default(select0, Star)
      orderBy == Default(orderBy0, NoOrder)
      cacheKey == JoinStr(<<"mysql", tableName, ArgJson(filter), Printed(select), Printed(orderBy)>>,
                          "__")
  IN  IF NotAnObject(filter) THEN Rejected(w, "Data must be an object", <<>>)
      ELSE redisServer_getOrSetCache(w, cacheKey,
                                     findByFilterAsync(w, filter, likeFields, select, orderBy, qfail),
                                     expireSeconds)

countByFilterFromCacheAsync(w, filter0, likeFields, qfail) ==
  LET filter == Default(filter0, EmptyObject)
      cacheKey == JoinStr(<<"mysql", tableName, ArgJson(filter)>>, "__")
  IN  IF NotAnObject(filter) THEN Rejected(w, "Data must be an object", <<>>)
      ELSE redisServer_getOrSetCache(w, cacheKey,
                                     countByFilterAsync(w, filter, likeFields, qfail), expireSeconds)

findByPageFromCacheAsync(w, filter0, likeFields, select0, page, pageSize, sort0, qfail) ==
  LET filter == Default(filter0, EmptyObject)
      select == Default(select0, Star)
      sort == Default(sort0, EmptyObject)
      names == "[" \o JoinStr([i \in 1..Len(likeFields) |-> Quoted(likeFields[i])], ",") \o "]"
      cacheKey == JoinStr(<<"mysql", tableName, "page", ArgJson(filter), names, Printed(select),
                            ToString(page), ToString(pageSize), ArgJson(sort)>>, "__")
  IN  redisServer_getOrSetCache(w, cacheKey,
                                findByPageAsync(w, filter, likeFields, select, page, pageSize, sort, qfail),
                                expireSeconds)

(***************************************************************************)
(* The calls made on a mysqlserver instance, one action per operation.     *)
(* dlast records the latest call: its arguments, the cache key it built    *)
(* (cached reads), how it settled and the statements it sent.              *)
(***************************************************************************)
IdIs(v) == Obj(<<Ent("id", v)>>)

TitleIs(t) == Obj(<<Ent("title", Js("string", t))>>)

\* { title, content }
Diary(title, content) == Obj(<<Ent("title", title), Ent("content", content)>>)

DiaryOf(t) == Diary(Js("string", t), Js("string", "c"))

\* filters of the reads, with the fields searched by LIKE: mappings, and the
\* values a caller can pass by mistake
ReadQueries ==
  {[filter |-> f, like |-> <<>>] :
     f \in {EmptyObject, IdIs(Num(1)), TitleIs("a"), Arr(<<>>), Str("x", <<"x">>), ArgNull}}
    \cup {[filter |-> TitleIs("a"), like |-> <<"title">>]}

Selects == {Star, Str("id", <<"id">>)}

Orders == {ArgUndefined, Str("id ASC", <<"id", "ASC">>)}

Pages == {1, 2}

WriteFilters ==
  {IdIs(Num(1)), IdIs(Js("string", "2")), IdIs(JsNull), EmptyObject,
   Obj(<<Ent("id", Num(1)), Ent("title", Js("string", "ab"))>>),
   Obj(<<Ent("id", Num(1)), Ent("title", JsNull)>>),
   Str("id = 1", <<"id", "=", "1">>), Str(" ", <<>>), ArgNull}

NoArgs ==
  [filter |-> ArgUndefined, orderBy |-> ArgUndefined, page |-> 1, select |-> ArgUndefined,
   qfail |-> FALSE, pageSize |-> 1, datas |-> ArgUndefined, like |-> <<>>]

NoDataCall ==
  [key |-> "", out |-> "resolved", op |-> "none", ret |-> JsUndefined, a |-> NoArgs, sent |-> <<>>]

DataInit ==
  /\ database = Db({}, 1)
  /\ dlast = NoDataCall

\* the call op(a) settles as r
DataCall(op, a, r) ==
  /\ database' = r.w.db
  /\ store' = r.w.store
  /\ dlast' = [key |-> r.key, out |-> r.out, op |-> op, ret |-> r.ret, a |-> a, sent |-> r.sent]
  /\ UNCHANGED <<last, expiredSince, pool, hlast, inflight>>

Here == World(database, store)

AllAsync ==
  \E select \in Selects, orderBy \in Orders, qfail \in BOOLEAN :
    DataCall("allAsync", [NoArgs EXCEPT !.select = select, !.orderBy = orderBy, !.qfail = qfail],
             allAsync(Here, select, orderBy, qfail))

FindOneByFilterAsync ==
  \E q \in ReadQueries, qfail \in BOOLEAN :
    DataCall("findOneByFilterAsync",
             [NoArgs EXCEPT !.filter = q.filter, !.like = q.like, !.qfail = qfail],
             findOneByFilterAsync(Here, q.filter, q.like, ArgUndefined, qfail))

FindByFilterAsync ==
  \E q \in ReadQueries, qfail \in BOOLEAN :
    DataCall("findByFilterAsync",
             [NoArgs EXCEPT !.filter = q.filter, !.like = q.like, !.qfail = qfail],
             findByFilterAsync(Here, q.filter, q.like, ArgUndefined, ArgUndefined, qfail))

CountByFilterAsync ==
  \E q \in ReadQueries, qfail \in BOOLEAN :
    DataCall("countByFilterAsync",
             [NoArgs EXCEPT !.filter = q.filter, !.like = q.like, !.qfail = qfail],
             countByFilterAsync(Here, q.filter, q.like, qfail))

FindByPageAsync ==
  \E q \in ReadQueries, page \in Pages, pageSize \in Pages, qfail \in BOOLEAN :
    DataCall("findByPageAsync",
             [NoArgs EXCEPT !.filter = q.filter, !.like = q.like, !.page = page,
                            !.pageSize = pageSize, !.qfail = qfail],
             findByPageAsync(Here, q.filter, q.like, ArgUndefined, page, pageSize, ArgUndefined,
                             qfail))

AllFromCacheAsync ==
  \E select \in Selects, orderBy \in Orders, qfail \in BOOLEAN :
    DataCall("allFromCacheAsync",
             [NoArgs EXCEPT !.select = select, !.orderBy = orderBy, !.qfail = qfail],
             allFromCacheAsync(Here, select, orderBy, qfail))

FindOneByFilterFromCacheAsync ==
  \E q \in ReadQueries, select \in Selects, qfail \in BOOLEAN :
    DataCall("findOneByFilterFromCacheAsync",
             [NoArgs EXCEPT !.filter = q.filter, !.like = q.like, !.select = select,
                            !.qfail = qfail],
             findOneByFilterFromCacheAsync(Here, q.filter, q.like, select, qfail))

FindByFilterFromCacheAsync ==
  \E q \in ReadQueries, orderBy \in Orders, qfail \in BOOLEAN :
    DataCall("findByFilterFromCacheAsync",
             [NoArgs EXCEPT !.filter = q.filter, !.like = q.like, !.orderBy = orderBy,
                            !.qfail = qfail],
             findByFilterFromCacheAsync(Here, q.filter, q.like, ArgUndefined, orderBy, qfail))

CountByFilterFromCacheAsync ==
  \E q \in ReadQueries, qfail \in BOOLEAN :
    DataCall("countByFilterFromCacheAsync",
             [NoArgs EXCEPT !.filter = q.filter, !.like = q.like, !.qfail = qfail],
             countByFilterFromCacheAsync(Here, q.filter, q.like, qfail))

FindByPageFromCacheAsync ==
  \E q \in ReadQueries, page \in Pages, qfail \in BOOLEAN :
    DataCall("findByPageFromCacheAsync",
             [NoArgs EXCEPT !.filter = q.filter, !.like = q.like, !.page = page, !.qfail = qfail],
             findByPageFromCacheAsync(Here, q.filter, q.like, ArgUndefined, page, 1, ArgUndefined,
                                      qfail))

InsertAsync ==
  \E datas \in {DiaryOf("a"), DiaryOf("ab"), TitleIs("a"), EmptyObject, Arr(<<>>),
               Str("x", <<"x">>), ArgNull, ArgUndefined},
     qfail \in BOOLEAN :
    /\ database.nextId <= MaxId
    /\ DataCall("insertAsync", [NoArgs EXCEPT !.datas = datas, !.qfail = qfail],
                insertAsync(Here, datas, qfail))

UpdateByFilterAsync ==
  \E filter \in WriteFilters,
     datas \in {TitleIs("ab"), IdIs(Num(2)), EmptyObject, ArgNull},
     qfail \in BOOLEAN :
    DataCall("updateByFilterAsync",
             [NoArgs EXCEPT !.filter = filter, !.datas = datas, !.qfail = qfail],
             updateByFilterAsync(Here, filter, datas, qfail))

UpsertAsync ==
  \E filter \in {IdIs(Num(1)), EmptyObject, ArgNull},
     data \in {Obj(<<Ent("id", Num(1)), Ent("title", Js("string", "ab")),
                     Ent("content", Js("string", "c"))>>),
               DiaryOf("a"), EmptyObject, ArgNull},
     qfail \in BOOLEAN :
    /\ database.nextId <= MaxId
    /\ DataCall("upsertAsync", [NoArgs EXCEPT !.filter = filter, !.datas = data, !.qfail = qfail],
                upsertAsync(Here, filter, data, qfail))

DeleteByFilterAsync ==
  \E filter \in WriteFilters, qfail \in BOOLEAN :
    DataCall("deleteByFilterAsync", [NoArgs EXCEPT !.filter = filter, !.qfail = qfail],
             deleteByFilterAsync(Here, filter, qfail))

(***************************************************************************)
(* The diary routes (routes/diary.router.js).  A handler takes the number  *)
(* n of connections checked out of the pool and the world, and gives what  *)
(* it answered, the world and the pool after it.  openFails says that the  *)
(* pool fails to hand out a connection.                                    *)
(***************************************************************************)
PoolCount == 2

\* mysqlPool.getConnection(): a connection checked out, or an error thrown
openConnectionAsync(n, openFails) ==
  IF openFails THEN [pool |-> n, throws |-> TRUE, conn |-> FALSE]
  ELSE [pool |-> n + 1, throws |-> FALSE, conn |-> TRUE]

closeConnectionAsync_Leaking(n, connection) == [pool |-> n, released |-> 0]

\* if (connection) connection.release()
closeConnectionAsync(n, connection) ==
  IF connection THEN [pool |-> n - 1, released |-> 1] ELSE [pool |-> n, released |-> 0]

\* { error: error.message }
ErrorBody(message) == Js("object", "{\"error\":" \o Quoted(message) \o "}")

\* { message: text }
MessageBody(text) == Js("object", "{\"message\":" \o Quoted(text) \o "}")

\* catch (error) { res.status(500).json({ error: error.message }) }
Caught(w, error, sent) ==
  [w |-> w, ret |-> error, sent |-> sent, status |-> 500, body |-> ErrorBody(error.s),
   threw |-> TRUE]

\* res.status(status).json(body) after the data-access call settled as r
Replied(r, status, body) ==
  [w |-> r.w, ret |-> r.ret, sent |-> r.sent, status |-> status, body |-> body, threw |-> FALSE]

\* try { conn = await openConnectionAsync(); tryBlock } catch { 500 }
\* finally { if (conn) await closeConnectionAsync(conn) }
Handler(n, w, openFails, tryBlock) ==
  LET finally(o, a) ==
        LET closed(c) ==
              [pool |-> IF o.conn THEN c.pool ELSE o.pool,
               w |-> a.w, ret |-> a.ret, sent |-> a.sent,
               released |-> IF o.conn THEN c.released ELSE 0,
               status |-> a.status, body |-> a.body, threw |-> a.threw, opened |-> o.conn]
        IN  closed(closeConnectionAsync(o.pool, o.conn))
      opened(o) == IF o.throws THEN finally(o, Caught(w, Js("error", "Error"), <<>>))
                   ELSE finally(o, tryBlock)
  IN  opened(openConnectionAsync(n, openFails))

router_get(n, w, openFails, qfail) ==
  LET then(r) == IF r.out = "rejected" THEN Caught(r.w, r.ret, r.sent)
                 ELSE Replied(r, 200, r.ret)
  IN  Handler(n, w, openFails, then(allAsync(w, ArgUndefined, ArgUndefined, qfail)))

router_get_id_Always200(n, w, id, openFails, qfail) ==
  LET then(r) == IF r.out = "rejected" THEN Caught(r.w, r.ret, r.sent)
                 ELSE Replied(r, 200, r.ret)
  IN  Handler(n, w, openFails,
              then(findOneByFilterAsync(w, IdIs(Js("string", id)), <<>>, ArgUndefined, qfail)))

router_get_id(n, w, id, openFails, qfail) ==
  LET then(r) == IF r.out = "rejected" THEN Caught(r.w, r.ret, r.sent)
                 ELSE IF Truthy(r.ret) THEN Replied(r, 200, r.ret)
                 ELSE Replied(r, 404, MessageBody("Diary not found"))
  IN  Handler(n, w, openFails,
              then(findOneByFilterAsync(w, IdIs(Js("string", id)), <<>>, ArgUndefined, qfail)))

router_post(n, w, body, openFails, qfail) ==
  LET created(id) ==
        Js("object", "{\"id\":" \o id.s \o ",\"title\":" \o JSONstringify(body.title).s
                       \o ",\"content\":" \o JSONstringify(body.content).s \o "}")
      then(r) == IF r.out = "rejected" THEN Caught(r.w, r.ret, r.sent)
                 ELSE Replied(r, 201, created(r.ret))
  IN  Handler(n, w, openFails,
              IF ~Truthy(body.title) \/ ~Truthy(body.content)
              THEN [w |-> w, ret |-> JsUndefined, sent |-> <<>>, status |-> 400,
                    body |-> MessageBody("Title and content are required"),
                    threw |-> FALSE]
              ELSE then(insertAsync(w, Diary(body.title, body.content), qfail)))

router_put_id(n, w, id, body, openFails, qfail) ==
  LET then(r) == IF r.out = "rejected" THEN Caught(r.w, r.ret, r.sent)
                 ELSE IF Truthy(r.ret)
                      THEN Replied(r, 200, MessageBody("Diary updated successfully"))
                 ELSE Replied(r, 404, MessageBody("Diary not found"))
  IN  Handler(n, w, openFails,
              then(updateByFilterAsync(w, IdIs(Js("string", id)),
                                       Diary(body.title, body.content), qfail)))

router_delete_id(n, w, id, openFails, qfail) ==
  LET then(r) == IF r.out = "rejected" THEN Caught(r.w, r.ret, r.sent)
                 ELSE IF Truthy(r.ret)
                      THEN Replied(r, 200, MessageBody("Diary deleted successfully"))
                 ELSE Replied(r, 404, MessageBody("Diary not found"))
  IN  Handler(n, w, openFails, then(deleteByFilterAsync(w, IdIs(Js("string", id)), qfail)))

(***************************************************************************)
(* The requests served, one action per route.  hlast records the latest:   *)
(* the route, what the data-access call gave (threw, ret), what was        *)
(* answered, whether a connection was obtained and how often released.     *)
(***************************************************************************)
\* req.params.id
Ids == {ToString(i) : i \in 1..MaxId}

\* req.body: { title, content }, either of which may be missing or empty
Bodies ==
  {[title |-> Js("string", "a"), content |-> Js("string", "c")],
   [title |-> Js("string", "ab"), content |-> Js("string", "c")],
   [title |-> Js("string", ""), content |-> Js("string", "c")],
   [title |-> Js("string", "a"), content |-> JsUndefined],
   [title |-> JsUndefined, content |-> JsUndefined]}

HttpInit ==
  /\ pool = 0
  /\ hlast = [ret |-> JsUndefined, sent |-> <<>>, released |-> 0, status |-> 0,
              body |-> JsUndefined, threw |-> FALSE, opened |-> FALSE, route |-> "none"]

\* the request to route was handled as h
Served(route, h) ==
  /\ database' = h.w.db
  /\ store' = h.w.store
  /\ pool' = h.pool
  /\ hlast' = [ret |-> h.ret, sent |-> h.sent, released |-> h.released, status |-> h.status,
               body |-> h.body, threw |-> h.threw, opened |-> h.opened, route |-> route]
  /\ UNCHANGED <<last, expiredSince, dlast, inflight>>

Get ==
  \E openFails \in BOOLEAN, qfail \in BOOLEAN :
    /\ pool < PoolCount
    /\ Served("GET /", router_get(pool, Here, openFails, qfail))

GetId ==
  \E id \in Ids, openFails \in BOOLEAN, qfail \in BOOLEAN :
    /\ pool < PoolCount
    /\ Served("GET /:id", router_get_id(pool, Here, id, openFails, qfail))

Post ==
  \E body \in Bodies, openFails \in BOOLEAN, qfail \in BOOLEAN :
    /\ pool < PoolCount
    /\ database.nextId <= MaxId
    /\ Served("POST /", router_post(pool, Here, body, openFails, qfail))

PutId ==
  \E id \in Ids, body \in Bodies, openFails \in BOOLEAN, qfail \in BOOLEAN :
    /\ pool < PoolCount
    /\ Served("PUT /:id", router_put_id(pool, Here, id, body, openFails, qfail))

DeleteId ==
  \E id \in Ids, openFails \in BOOLEAN, qfail \in BOOLEAN :
    /\ pool < PoolCount
    /\ Served("DELETE /:id", router_delete_id(pool, Here, id, openFails, qfail))

(***************************************************************************)
(* Writes against a populated cache.  A holder of a redisserver instance   *)
(* stores the rows of the table under the key allFromCacheAsync('*')       *)
(* builds; the table is then written and read through the cached read.     *)
(***************************************************************************)
RowsKey == allCacheKey(Star, NoOrder)

StaleInit ==
  /\ store = [k \in {Namespaced(RowsKey)} |-> Absent]
  /\ last = NoCall
  /\ expiredSince = FALSE
  /\ inflight = <<>>
  /\ DataInit
  /\ HttpInit

\* setAsync(RowsKey, text, ttl) on an instance, text the JSON text of rows
StoreRows ==
  \E text \in {"[]", "[{\"id\":1,\"title\":\"a\",\"content\":\"c\"}]"}, ttl \in 1..MaxTTL :
    LET r == setAsync(store, RowsKey, text, ttl, {}) IN
    /\ store' = r.store
    /\ last' = Call("setAsync", RowsKey, NoFetch, ttl, r, 0, FALSE)
    /\ expiredSince' = FALSE
    /\ UNCHANGED <<database, dlast, pool, hlast, inflight>>

InsertDiary ==
  /\ database.nextId <= MaxId
  /\ DataCall("insertAsync", [NoArgs EXCEPT !.datas = DiaryOf("a")],
              insertAsync(Here, DiaryOf("a"), FALSE))

UpdateDiary ==
  \E id \in 1..MaxId :
    DataCall("updateByFilterAsync", [NoArgs EXCEPT !.filter = IdIs(Num(id)), !.datas = TitleIs("ab")],
             updateByFilterAsync(Here, IdIs(Num(id)), TitleIs("ab"), FALSE))

UpsertDiary ==
  /\ database.nextId <= MaxId
  /\ DataCall("upsertAsync", [NoArgs EXCEPT !.filter = IdIs(Num(1)), !.datas = DiaryOf("ab")],
              upsertAsync(Here, IdIs(Num(1)), DiaryOf("ab"), FALSE))

DeleteDiary ==
  \E id \in 1..MaxId :
    DataCall("deleteByFilterAsync", [NoArgs EXCEPT !.filter = IdIs(Num(id))],
             deleteByFilterAsync(Here, IdIs(Num(id)), FALSE))

ReadRowsFromCache ==
  DataCall("allFromCacheAsync", [NoArgs EXCEPT !.select = Star],
           allFromCacheAsync(Here, Star, ArgUndefined, FALSE))

(***************************************************************************)
(* _buildWhereClause applied once to an input.  A filter is a mapping of up *)
(* to MaxEntries of the table's columns, in any order, to numbers, strings  *)
(* (the falsy 0 and '' among them), null and undefined.                    *)
(***************************************************************************)
MaxEntries == 2

WhereFilters ==
  LET values == {Num(1), JsZero, Js("string", "a"), Js("string", ""), JsNull, JsUndefined}
      keys(n) == {ks \in [1..n -> Columns] : \A i, j \in 1..n : ks[i] = ks[j] => i = j}
  IN  UNION {{Obj([i \in 1..n |-> Ent(ks[i], vs[i])]) : ks \in keys(n), vs \in [1..n -> values]} :
             n \in 0..MaxEntries}

\* a filter and like-fields to build a clause from
WhereInit ==
  /\ CacheInit /\ HttpInit
  /\ database = Db({}, 1)
  /\ dlast \in {[NoDataCall EXCEPT !.a.filter = filter, !.a.like = likeFields] :
                  filter \in WhereFilters,
                  likeFields \in {<<>>, <<"title">>, <<"title", "id">>}}

\* this._buildWhereClause(filter, likeFields); dlast.ret is the { where,
\* values } it returns
BuildWhereClause ==
  /\ dlast.op = "none"
  /\ dlast' = [dlast EXCEPT !.op = "_buildWhereClause",
                            !.ret = _buildWhereClause(dlast.a.filter, dlast.a.like)]
  /\ UNCHANGED <<store, last, expiredSince, database, pool, hlast, inflight>>

(***************************************************************************)
(* Two getOrSetCache calls on one instance, for the same key, running      *)
(* concurrently.  A call gives up control at each await, so it runs in      *)
(* three steps: the lookup (await this.getAsync), the callback (await       *)
(* fetchFunction()) and the store (setAsync, whose set and expire commands  *)
(* are issued one after the other without a pause).  inflight[c] is the     *)
(* call's position pc, its callback f and expiry ttl, the value it will     *)
(* return, whether its lookup missed, whether it invoked the callback, and  *)
(* the rank of its store among the stores made (0 before it).  The backend  *)
(* answers every command.                                                   *)
(***************************************************************************)
Callers == {"A", "B"}

FlightInit ==
  /\ store = [k \in {Namespaced(key) : key \in Keys} |-> Absent]
  /\ last = NoCall
  /\ expiredSince = FALSE
  /\ DataInit
  /\ HttpInit
  /\ \E ttl \in 0..MaxTTL :
       inflight \in [Callers -> {[ttl |-> ttl, fetched |-> FALSE, f |-> f, result |-> JsUndefined,
                                  pc |-> "get", missed |-> FALSE, rank |-> 0] :
                                 f \in Fetches}]

\* let result = await this.getAsync(key); a hit is parsed and returned
Lookup(c) ==
  /\ inflight[c].pc = "get"
  /\ LET g == getAsync(store, CHOOSE key \in Keys : TRUE, {})
         p == JSONparse(g.val.s)
     IN  inflight' = [inflight EXCEPT ![c] =
                        IF ~Truthy(g.val) THEN [@ EXCEPT !.pc = "fetch", !.missed = TRUE]
                        ELSE [@ EXCEPT !.pc = "done",
                                       !.result = IF p.throws THEN JsNull ELSE p.v]]
  /\ UNCHANGED <<store, last, expiredSince, database, dlast, pool, hlast>>

\* a helper that shares one fetch: a call that misses while another call
\* is fetching or storing does not invoke its callback
Fetch_SingleFlight(c) ==
  /\ inflight[c].pc = "fetch"
  /\ LET f == inflight[c].f
         shared == \E o \in Callers \ {c} : inflight[o].pc \in {"fetch", "set"}
     IN  inflight' = [inflight EXCEPT ![c] =
                        IF shared THEN [@ EXCEPT !.pc = "done"]
                        ELSE IF f.throws THEN [@ EXCEPT !.pc = "done", !.fetched = TRUE, !.result = JsNull]
                        ELSE [@ EXCEPT !.pc = IF Truthy(f.v) THEN "set" ELSE "done",
                                       !.fetched = TRUE, !.result = f.v]]
  /\ UNCHANGED <<store, last, expiredSince, database, dlast, pool, hlast>>

\* result = await fetchFunction(); a throw is caught and null returned, a
\* falsy result is returned unstored
Fetch(c) ==
  /\ inflight[c].pc = "fetch"
  /\ LET f == inflight[c].f
     IN  inflight' = [inflight EXCEPT ![c] =
                        IF f.throws THEN [@ EXCEPT !.pc = "done", !.fetched = TRUE, !.result = JsNull]
                        ELSE [@ EXCEPT !.pc = IF Truthy(f.v) THEN "set" ELSE "done",
                                       !.fetched = TRUE, !.result = f.v]]
  /\ UNCHANGED <<store, last, expiredSince, database, dlast, pool, hlast>>

\* await this.setAsync(key, JSON.stringify(result), expireSeconds); return result
Store(c) ==
  /\ inflight[c].pc = "set"
  /\ LET w == setAsync(store, CHOOSE key \in Keys : TRUE,
                       JSONstringify(inflight[c].result).s, inflight[c].ttl, {})
     IN  /\ store' = w.store
         /\ inflight' = [inflight EXCEPT
                           ![c] = [@ EXCEPT !.pc = "done",
                                            !.rank = 1 + Cardinality({o \in Callers :
                                                                       inflight[o].rank > 0})]]
  /\ UNCHANGED <<last, expiredSince, database, dlast, pool, hlast>>

(***************************************************************************)
(* Specifications                                                          *)
(***************************************************************************)
Init == CacheInit /\ DataInit /\ HttpInit

\* the calls on a redisserver instance, and time passing
Next ==
  \/ GetAsync
  \/ SetAsync
  \/ DelAsync
  \/ ExpireAsync
  \/ GetOrSetCache
  \/ Tick

Spec == Init /\ [][Next]_vars

\* the calls on a mysqlserver instance
NextData ==
  \/ AllAsync
  \/ FindOneByFilterAsync
  \/ FindByFilterAsync
  \/ CountByFilterAsync
  \/ FindByPageAsync
  \/ AllFromCacheAsync
  \/ FindOneByFilterFromCacheAsync
  \/ FindByFilterFromCacheAsync
  \/ CountByFilterFromCacheAsync
  \/ FindByPageFromCacheAsync
  \/ InsertAsync
  \/ UpdateByFilterAsync
  \/ UpsertAsync
  \/ DeleteByFilterAsync

SpecData == Init /\ [][NextData]_vars

\* writes and cached reads of a table whose rows are cached
NextStale ==
  \/ StoreRows
  \/ Tick
  \/ InsertDiary
  \/ UpdateDiary
  \/ UpsertDiary
  \/ DeleteDiary
  \/ ReadRowsFromCache

SpecStale == StaleInit /\ [][NextStale]_vars

\* the WHERE clauses _buildWhereClause builds
SpecWhere == WhereInit /\ [][BuildWhereClause]_vars

\* the steps of the concurrent getOrSetCache calls
NextFlight == \E c \in Callers : Lookup(c) \/ Fetch(c) \/ Store(c)

SpecFlight == FlightInit /\ [][NextFlight]_vars

\* the writes on a mysqlserver instance
NextWrites ==
  \/ InsertAsync
  \/ UpdateByFilterAsync
  \/ DeleteByFilterAsync

SpecWrites == Init /\ [][NextWrites]_vars

\* paged reads of a table that grows and shrinks
NextPages ==
  \/ InsertAsync
  \/ DeleteByFilterAsync
  \/ FindByPageAsync

SpecPages == Init /\ [][NextPages]_vars

\* the requests to the diary routes
NextHttp ==
  \/ Get
  \/ GetId
  \/ Post
  \/ PutId
  \/ DeleteId

SpecHttp == Init /\ [][NextHttp]_vars

(***************************************************************************)
(* Properties of the cache-aside helper                                    *)
(***************************************************************************)
\* JSON.parse(JSON.stringify(v)) gives v back
JsonStable(v) ==
  LET p == JSONparse(JSONstringify(v).s) IN ~p.throws /\ p.v = v

\* the latest call is a getOrSetCache call that repeats the one before it
Repeated == last.op = "getOrSetCache" /\ last.again

\* no backend command failed in the latest call nor in the one it repeats
BackendHealthy == last.failed = {} /\ last.prevFailed = {}

\* C1 as stated (violated): with a healthy backend, whatever the callback
\* does, getOrSetCache called twice in a row on one key, with no mutation in
\* between and the entry not expired, returns equal values and calls fetch
\* at most once over the two calls.
C1_AnyFetchRoundTrip ==
  (Repeated /\ BackendHealthy) =>
    /\ last.ret = last.prevRet
    /\ last.fetched + last.prevFetched <= 1

\* C1 amended: the same, for a callback that returns a truthy value which
\* JSON serialisation gives back unchanged.
C1_TruthyStableRoundTrip ==
  (Repeated /\ BackendHealthy /\ ~last.f.throws /\ Truthy(last.f.v) /\ JsonStable(last.f.v)) =>
    /\ last.ret = last.prevRet
    /\ last.fetched + last.prevFetched <= 1

\* C1 witness: a miss that fetched and stored, then a hit that returned the same value
C1_Witness ==
  /\ Repeated /\ BackendHealthy
  /\ ~last.f.throws /\ Truthy(last.f.v) /\ JsonStable(last.f.v)
  /\ last.prevFetched = 1 /\ last.fetched = 0
  /\ last.ret = last.f.v

\* C3 (violated): on a miss where fetch returns a truthy value, getOrSetCache
\* returns that value even when the set or the expire command fails.
C3_FreshResultWhenStoreFails ==
  (/\ last.op = "getOrSetCache" /\ last.fetched = 1
   /\ ~last.f.throws /\ Truthy(last.f.v)
   /\ last.failed \cap {"set", "expire"} # {}) =>
    (last.out = "resolved" /\ last.ret = last.f.v)

\* C4 (violated): a primitive whose backend command fails resolves to a
\* falsy value and does not reject.
C4_PrimitivesNeverReject ==
  (last.op \in {"getAsync", "setAsync", "delAsync", "expireAsync"} /\ last.failed # {}) =>
    (last.out = "resolved" /\ ~Truthy(last.ret))

\* C5 as stated (violated): when the lookup command fails, getOrSetCache
\* returns null.
C5_LookupFailureGivesNull ==
  (last.op = "getOrSetCache" /\ "get" \in last.failed) =>
    (last.out = "resolved" /\ last.ret = JsNull)

\* C5 amended: when the lookup command fails, getOrSetCache does not reject;
\* it takes the failure for a miss, calls fetch once and returns what fetch
\* returned, or null when fetch threw or the set command failed.
C5_LookupFailureIsAMiss ==
  (last.op = "getOrSetCache" /\ "get" \in last.failed) =>
    /\ last.out = "resolved"
    /\ last.fetched = 1
    /\ IF last.f.throws THEN last.ret = JsNull ELSE last.ret \in {last.f.v, JsNull}
    /\ (~last.f.throws /\ "set" \notin last.failed) => last.ret = last.f.v

\* C5 witness: the lookup failed and the caller got the fetched value
C5_Witness ==
  /\ last.op = "getOrSetCache" /\ "get" \in last.failed
  /\ ~last.f.throws /\ Truthy(last.f.v) /\ last.ret = last.f.v

(***************************************************************************)
(* Properties of the data-access layer                                     *)
(***************************************************************************)
CachedReads ==
  {"allFromCacheAsync", "findOneByFilterFromCacheAsync", "findByFilterFromCacheAsync",
   "countByFilterFromCacheAsync", "findByPageFromCacheAsync"}

\* what the uncached counterpart of cached read op gives for arguments a
Counterpart(w, op, a) ==
  CASE op = "allFromCacheAsync" -> allAsync(w, a.select, a.orderBy, a.qfail)
    [] op = "findOneByFilterFromCacheAsync" ->
         findOneByFilterAsync(w, a.filter, a.like, a.select, a.qfail)
    [] op = "findByFilterFromCacheAsync" ->
         findByFilterAsync(w, a.filter, a.like, a.select, a.orderBy, a.qfail)
    [] op = "countByFilterFromCacheAsync" -> countByFilterAsync(w, a.filter, a.like, a.qfail)
    [] OTHER -> findByPageAsync(w, a.filter, a.like, a.select, a.page, a.pageSize, a.orderBy, a.qfail)

\* the cache holds nothing under key
Miss(s, key) == Namespaced(key) \notin DOMAIN s \/ s[Namespaced(key)] = Absent

\* C2 (violated): a cached read that misses the cache gives what its
\* uncached counterpart gives for the same arguments, sending the same
\* statements once.
C2_CachedReadRoutesThroughCacheAside ==
  [][(/\ dlast'.op \in CachedReads
      /\ dlast'.key # ""
      /\ Miss(store, dlast'.key)
      /\ Counterpart(Here, dlast'.op, dlast'.a).out = "resolved")
     => /\ dlast'.out = "resolved"
        /\ dlast'.ret = Counterpart(Here, dlast'.op, dlast'.a).ret
        /\ dlast'.sent = Counterpart(Here, dlast'.op, dlast'.a).sent]_vars

\* the parameters a cached read was called with, defaults filled in
Parameters(c) ==
  [op |-> c.op, filter |-> Default(c.a.filter, EmptyObject), orderBy |-> c.a.orderBy,
   page |-> c.a.page, select |-> Default(c.a.select, Star),
   pageSize |-> c.a.pageSize, like |-> {c.a.like[i] : i \in 1..Len(c.a.like)}]

\* C7 (violated): two cached reads that differ in operation, filter,
\* like-field set, select list, sort or paging never build the same key.
C7_CacheKeysCollisionFree ==
  [][(/\ dlast.op \in CachedReads /\ dlast.key # ""
      /\ dlast'.op \in CachedReads /\ dlast'.key # ""
      /\ Parameters(dlast) # Parameters(dlast'))
     => dlast.key # dlast'.key]_vars

\* not a flat key-value mapping
Malformed(x) == NotAnObject(x) \/ x.t = "null"

EmptyMapping(x) == x.t = "object" /\ x.ents = <<>>

\* neither a mapping with a condition nor a non-blank predicate string
Unusable(filter) == ~NotBlank(filter) /\ (Malformed(filter) \/ EmptyMapping(filter))

\* the latest call was handed an argument its operation must refuse
BadArguments ==
  LET a == dlast.a IN
  \/ /\ dlast.op \in {"findOneByFilterAsync", "findByFilterAsync", "countByFilterAsync",
                      "findByPageAsync"}
     /\ Malformed(Default(a.filter, EmptyObject))
  \/ dlast.op = "insertAsync" /\ (Malformed(a.datas) \/ EmptyMapping(a.datas))
  \/ /\ dlast.op = "updateByFilterAsync"
     /\ (Malformed(a.datas) \/ EmptyMapping(a.datas) \/ Unusable(a.filter))
  \/ dlast.op = "deleteByFilterAsync" /\ Unusable(a.filter)
  \/ /\ dlast.op = "upsertAsync"
     /\ \/ Malformed(a.filter) \/ EmptyMapping(a.filter)
        \/ Malformed(a.datas) \/ EmptyMapping(a.datas)

\* C10 (violated): a call handed a malformed or empty argument, or an
\* update or delete handed no usable filter, rejects with no statement sent.
C10_ValidationPrecedesIO ==
  BadArguments => dlast.out = "rejected" /\ dlast.sent = <<>>

WriteOps == {"insertAsync", "updateByFilterAsync", "deleteByFilterAsync", "upsertAsync"}

\* C6 (violated): a write leaves every cache entry as it was, and a cached
\* read issued after a write while the entry lives gives the stored value
\* without sending a statement.
C6_WritesLeaveCacheReadsStale ==
  [][/\ (dlast' # dlast /\ dlast'.op \in WriteOps) => store' = store
     /\ (/\ dlast' # dlast
         /\ dlast.op \in WriteOps
         /\ dlast'.op \in CachedReads
         /\ ~Miss(store, dlast'.key))
        => /\ dlast'.out = "resolved"
           /\ dlast'.ret = JSONparse(store[Namespaced(dlast'.key)].val).v
           /\ dlast'.sent = <<>>
           /\ store' = store]_vars

(***************************************************************************)
(* Properties of the diary routes                                          *)
(***************************************************************************)
\* C8: a handler that obtained a connection released it exactly once, one
\* that obtained none released none, and no connection stays checked out
\* once the request is served.
C8_ConnectionReleasedExactlyOnce ==
  /\ hlast.opened => hlast.released = 1
  /\ ~hlast.opened => hlast.released = 0
  /\ pool = 0

\* a request answered 400 by the return inside the try block, its
\* connection obtained and released
C8_Witness ==
  /\ hlast.route = "POST /" /\ hlast.status = 400
  /\ hlast.opened /\ hlast.released = 1 /\ pool = 0

\* a handler whose connection or data-access call threw answers 500 with
\* the error's message
Answers500OnThrow ==
  hlast.threw => hlast.status = 500 /\ hlast.body = ErrorBody(hlast.ret.s)

\* the latest request's read gave the falsy sentinel
FalsyRead(route) == hlast.route = route /\ ~hlast.threw /\ ~Truthy(hlast.ret)

\* C9 as stated (violated): 500 on a throw, and 404 whenever a read handler's
\* read gives the falsy sentinel, GET / on an empty table included.
C9_FalsyReadAnswers404 ==
  /\ Answers500OnThrow
  /\ FalsyRead("GET /") \/ FalsyRead("GET /:id") => hlast.status = 404

\* C9 as amended: 500 on a throw; GET /:id, PUT /:id and DELETE /:id answer
\* 404 when their call gives a falsy result; GET / has no not-found case and
\* answers 200 with what allAsync gave, false on an empty table.
C9_StatusMapping ==
  /\ Answers500OnThrow
  /\ FalsyRead("GET /:id") \/ FalsyRead("PUT /:id") \/ FalsyRead("DELETE /:id")
       => hlast.status = 404
  /\ hlast.route = "GET /" /\ ~hlast.threw => hlast.status = 200 /\ hlast.body = hlast.ret

\* GET / served from an empty table: allAsync gave false, answered 200
C9_Witness ==
  /\ hlast.route = "GET /" /\ hlast.opened /\ ~hlast.threw
  /\ hlast.ret = JsFalse /\ hlast.status = 200 /\ database.table = {}

(***************************************************************************)
(* Properties of the data-access operations                                *)
(***************************************************************************)
UncachedOps ==
  {"allAsync", "findOneByFilterAsync", "findByFilterAsync", "countByFilterAsync",
   "findByPageAsync"} \cup WriteOps

\* a statement of the call that settles in this step failed on the
\* connection: the connection fails every query, or the server refuses the
\* statement (the statements before a failing one of a call are reads, so
\* each meets the database as the call found it)
QueryFailed ==
  /\ dlast'.sent # <<>>
  /\ \/ dlast'.a.qfail
     \/ \E i \in 1..Len(dlast'.sent) :
          Execute(database, dlast'.sent[i].sql, dlast'.sent[i].values).err

CountOf(v) == CHOOSE n \in 0..MaxId : ToString(n) = v.s

\* the page the claim describes: at most pageSize rows from offset
\* (page - 1) * pageSize of rows, with totalCount total
PageOf(rows, page, pageSize, total) ==
  LET offset == (page - 1) * pageSize
      to == IF offset + pageSize < Len(rows) THEN offset + pageSize ELSE Len(rows)
      pages == CHOOSE m \in 0..total : m * pageSize >= total /\ (m - 1) * pageSize < total
  IN  Js("object",
         "{\"documents\":[" \o JoinStr(SubSeq(rows, offset + 1, to), ",")
           \o "],\"page\":" \o ToString(page) \o ",\"pageSize\":" \o ToString(pageSize)
           \o ",\"totalCount\":" \o ToString(total)
           \o ",\"totalPages\":" \o ToString(pages) \o "}")

\* C12: for a filter mapping, page >= 1 and pageSize > 0 on a healthy
\* connection, findByPageAsync gives the rows at offset (page - 1) * pageSize
\* of what findByFilterAsync selects in its default order, at most pageSize of
\* them, totalCount what countByFilterAsync gives for the same filter and
\* like-fields, and totalPages = ceil(totalCount / pageSize).  (The call
\* writes nothing, so the table after it is the table it read.)
C12_PageMatchesCountAndOffset ==
  (/\ dlast.op = "findByPageAsync"
   /\ Default(dlast.a.filter, EmptyObject).t = "object"
   /\ ~dlast.a.qfail
   /\ dlast.a.page >= 1 /\ dlast.a.pageSize > 0)
  => LET a == dlast.a
         c == countByFilterAsync(Here, a.filter, a.like, FALSE)
         f == findByFilterAsync(Here, a.filter, a.like, ArgUndefined, ArgUndefined, FALSE)
         rows == ResultRows(Execute(database, f.sent[1].sql, f.sent[1].values))
     IN  /\ c.out = "resolved"
         /\ dlast.out = "resolved"
         /\ dlast.ret = PageOf(rows, a.page, a.pageSize, CountOf(c.ret))

\* the second page of size 1 of a table of two rows: the row of id 1,
\* totalCount 2, totalPages 2
C12_Witness ==
  /\ dlast.op = "findByPageAsync" /\ dlast.out = "resolved"
  /\ dlast.a.filter = EmptyObject /\ dlast.a.page = 2 /\ dlast.a.pageSize = 1
  /\ \E t \in Titles :
       dlast.ret.s = "{\"documents\":[" \o RowJson([id |-> 1, title |-> t, content |-> "c"],
                                                   <<"id", "title", "content">>)
                       \o "],\"page\":2,\"pageSize\":1,\"totalCount\":2,\"totalPages\":2}"

\* the call that settles in this step is updateByFilterAsync(conn, {id: k},
\* data), k a value, and it resolved
UpdatedById ==
  /\ dlast' # dlast
  /\ dlast'.op = "updateByFilterAsync" /\ dlast'.out = "resolved"
  /\ dlast'.a.filter.t = "object" /\ Len(dlast'.a.filter.ents) = 1
  /\ dlast'.a.filter.ents[1].k = "id"
  /\ dlast'.a.filter.ents[1].v.t \notin {"null", "undefined"}

\* a row with id = k was in the table before the call
ExistedBefore == \E r \in database.table : ToString(r.id) = dlast'.a.filter.ents[1].v.s

\* findOneByFilterAsync(conn, {id: k}) after the call gives a row of id k
\* whose columns named in data hold data's values
ReflectedAfter ==
  LET found == findOneByFilterAsync(World(database', store'), dlast'.a.filter, <<>>,
                                    ArgUndefined, FALSE)
      datas == dlast'.a.datas
  IN  /\ found.out = "resolved"
      /\ \E r \in database'.table :
           /\ found.ret = Js("object", RowJson(r, <<"id", "title", "content">>))
           /\ ToString(r.id) = dlast'.a.filter.ents[1].v.s
           /\ \A i \in 1..Len(datas.ents) : ColumnText(r, datas.ents[i].k) = datas.ents[i].v.s

\* C13 as stated (violated): updateByFilterAsync(conn, {id: k}, data) returns
\* true if and only if a row with id = k existed before the call, false
\* leaving the table unchanged, and after true findOneByFilterAsync(conn,
\* {id: k}) gives a row whose updated columns equal the values in data.
C13_UpdateReflectedById ==
  [][UpdatedById
     => /\ dlast'.ret = (IF ExistedBefore THEN JsTrue ELSE JsFalse)
        /\ ~ExistedBefore => database' = database
        /\ ExistedBefore => ReflectedAfter]_vars

\* data assigns the column the filter selects by
RewritesId == \E i \in 1..Len(dlast'.a.datas.ents) : dlast'.a.datas.ents[i].k = primaryField

\* C13 as amended: the same, the row being found again under id = k when
\* data does not assign the id column; and on a healthy connection the call
\* with a title for data does resolve.
C13_UpdateReflectedUnlessIdRewritten ==
  [][/\ UpdatedById
         => /\ dlast'.ret = (IF ExistedBefore THEN JsTrue ELSE JsFalse)
            /\ ~ExistedBefore => database' = database
            /\ (ExistedBefore /\ ~RewritesId) => ReflectedAfter
     /\ (/\ dlast' # dlast /\ dlast'.op = "updateByFilterAsync"
         /\ dlast'.a.filter \in {IdIs(Num(k)) : k \in 1..MaxId}
         /\ dlast'.a.datas = TitleIs("ab") /\ ~dlast'.a.qfail)
         => dlast'.out = "resolved"]_vars

\* the row of id 1 was updated: the call returned true and the row holds
\* the new title
C13_Witness ==
  /\ dlast.op = "updateByFilterAsync" /\ dlast.out = "resolved" /\ dlast.ret = JsTrue
  /\ dlast.a.filter = IdIs(Num(1)) /\ dlast.a.datas = TitleIs("ab")
  /\ \E r \in database.table : r.id = 1 /\ r.title = "ab"

\* the call that settles in this step is an update or a delete by a mapping
FilteredWrite ==
  /\ dlast' # dlast
  /\ dlast'.op \in {"updateByFilterAsync", "deleteByFilterAsync"}
  /\ dlast'.a.filter.t = "object"

\* row r meets the entry: its column k equals the value, which is a value
EntryHolds(r, e) ==
  /\ e.k \in Columns
  /\ e.v.t \notin {"null", "undefined"}
  /\ ColumnText(r, e.k) = e.v.s

\* the statement ends in WHERE k1 = ? AND k2 = ? .., one condition for
\* every key of the mapping, and its last bind values are the mapping's
EveryKeyConstrains(stmt, filter) ==
  LET n == Len(filter.ents)
      wh == Pos(stmt.sql, "WHERE")
      tail == From(stmt.sql, wh + 1)
  IN  /\ wh > 0
      /\ Len(tail) = (IF n = 0 THEN 0 ELSE 4 * n - 1)
      /\ \A i \in 1..n :
           /\ tail[4 * i - 3] = _escapeFieldName(filter.ents[i].k)
           /\ tail[4 * i - 2] = "=" /\ tail[4 * i - 1] = "?"
           /\ i < n => tail[4 * i] = "AND"
      /\ Len(stmt.values) >= n
      /\ SubSeq(stmt.values, Len(stmt.values) - n + 1, Len(stmt.values)) = ObjectValues(filter)

\* C17: an update or delete by a mapping leaves every row that fails an
\* entry of the mapping in the table as it was; its statement has one
\* equality condition for every key, null and undefined values included; and
\* with an empty mapping, or one whose values are all null or undefined, the
\* table is unchanged.
C17_MappingFilterNeverWidens ==
  [][FilteredWrite
     => LET filter == dlast'.a.filter IN
        /\ \A r \in database.table :
             (\E i \in 1..Len(filter.ents) : ~EntryHolds(r, filter.ents[i]))
               => r \in database'.table
        /\ dlast'.sent # <<>>
             => Len(dlast'.sent) = 1 /\ EveryKeyConstrains(dlast'.sent[1], filter)
        /\ (\A i \in 1..Len(filter.ents) : filter.ents[i].v.t \in {"null", "undefined"})
             => database' = database]_vars

\* deleteByFilterAsync(conn, {id: 1, title: null}) with the row of id 1 in
\* the table: the statement was sent, no row matched, the row is still there
C17_Witness ==
  /\ dlast.op = "deleteByFilterAsync"
  /\ dlast.a.filter = Obj(<<Ent("id", Num(1)), Ent("title", JsNull)>>)
  /\ Len(dlast.sent) = 1 /\ dlast.out = "resolved" /\ dlast.ret = JsFalse
  /\ \E r \in database.table : r.id = 1

\* C15 (violated): an update or delete called with a non-blank predicate
\* string sends a statement whose WHERE clause has that string for its
\* predicate, and on a healthy connection the statement is executed, so the
\* string selects for update the rows it selects for delete.
C15_StringFilterIsWherePredicate ==
  (/\ dlast.op \in {"updateByFilterAsync", "deleteByFilterAsync"}
   /\ NotBlank(dlast.a.filter)
   /\ dlast.sent # <<>>)
  => LET sql == dlast.sent[1].sql
         n == Len(dlast.a.filter.toks)
     IN  /\ Len(sql) > n
         /\ SubSeq(sql, Len(sql) - n + 1, Len(sql)) = dlast.a.filter.toks
         /\ sql[Len(sql) - n] = "WHERE"
         /\ ~dlast.a.qfail => dlast.out = "resolved"

\* C14: _buildWhereClause gives one condition for every entry whose value is
\* neither null nor undefined, LIKE with the value wrapped in % for a
\* like-field and equality with the value itself otherwise, joined by AND
\* after WHERE in the mapping's order, and the bind values in that order,
\* one for every placeholder; the other entries give nothing, and with no
\* condition the clause is empty.
C14_OneConditionPerNonNullEntry ==
  dlast.op = "_buildWhereClause" =>
    LET ents == dlast.a.filter.ents
        b == dlast.ret
        kept == {i \in 1..Len(ents) : ents[i].v.t # "null" /\ ents[i].v.t # "undefined"}
        nth(j) == CHOOSE i \in kept : Cardinality({x \in kept : x < i}) = j - 1
        isLike(i) == \E x \in 1..Len(dlast.a.like) : dlast.a.like[x] = ents[i].k
        m == Cardinality(kept)
    IN  /\ Len(b.values) = m
        /\ Cardinality({p \in 1..Len(b.where) : b.where[p] = "?"}) = m
        /\ Len(b.where) = 4 * m
        /\ m > 0 => b.where[1] = "WHERE"
        /\ \A j \in 1..m :
             /\ b.where[4 * j - 2] = _escapeFieldName(ents[nth(j)].k)
             /\ b.where[4 * j - 1] = (IF isLike(nth(j)) THEN "LIKE" ELSE "=")
             /\ b.where[4 * j] = "?"
             /\ j < m => b.where[4 * j + 1] = "AND"
             /\ b.values[j] = (IF isLike(nth(j))
                               THEN Js("string", "%" \o ents[nth(j)].v.s \o "%")
                               ELSE ents[nth(j)].v)

\* { id: null, title: 'a', } with title a like-field: one LIKE condition,
\* one wrapped value, nothing for id
C14_Witness ==
  /\ dlast.op = "_buildWhereClause"
  /\ dlast.a.filter = Obj(<<Ent("id", JsNull), Ent("title", Js("string", "a"))>>)
  /\ dlast.a.like = <<"title">>
  /\ dlast.ret = [where |-> <<"WHERE", _escapeFieldName("title"), "LIKE", "?">>,
                  values |-> <<Js("string", "%a%")>>]

(***************************************************************************)
(* Properties of concurrent cache-aside calls                              *)
(***************************************************************************)
\* the key the concurrent calls share, as the backend holds it
SharedKey == Namespaced(CHOOSE key \in Keys : TRUE)

\* C16: getOrSetCache has no single-flight: a call whose lookup missed
\* invokes its callback whatever the other call is doing, so two calls that
\* both missed both fetch; and the backend holds what the latest store
\* wrote, a later store overwriting an earlier one.
C16_NoSingleFlight ==
  /\ \A c \in DOMAIN inflight :
       (inflight[c].missed /\ inflight[c].pc \in {"set", "done"}) => inflight[c].fetched
  /\ \A c \in DOMAIN inflight :
       (inflight[c].rank > 0 /\ \A o \in DOMAIN inflight : inflight[o].rank <= inflight[c].rank)
         => /\ store[SharedKey].present
            /\ store[SharedKey].val = JSONstringify(inflight[c].result).s

\* both calls missed and both invoked fetch before either stored; then both
\* stored, and the backend holds the second store's value, not the first's
C16_Witness ==
  /\ DOMAIN inflight = Callers
  /\ \A c \in Callers :
       inflight[c].missed /\ inflight[c].fetched /\ inflight[c].pc = "done" /\ inflight[c].rank > 0
  /\ \E first, second \in Callers :
       /\ inflight[first].rank = 1 /\ inflight[second].rank = 2
       /\ inflight[first].result # inflight[second].result
       /\ store[SharedKey].val = JSONstringify(inflight[second].result).s
       /\ store[SharedKey].val # JSONstringify(inflight[first].result).s

====
